---------------------------- MODULE Spec2Model ----------------------------
(***************************************************************************)
(* RideCast: multi-source forecast acquisition and ride decision.          *)
(*                                                                         *)
(* The module models five parts of the program, each with a specification  *)
(* of its own over the shared variables:                                   *)
(*   SpecResolve  api_utils.find_forecast_with_fallback                    *)
(*   SpecRetry    api_utils.retry_with_backoff (FairSpecRetry: with the    *)
(*                fairness of a call that keeps running)                   *)
(*   SpecFetch    the four fetchers' get_forecast                          *)
(*   SpecAgg      ridecast.get_all_forecasts                               *)
(*   SpecDay      the round trip evaluation of ridecast.__main__           *)
(* Spec is their union.                                                    *)
(*                                                                         *)
(* An optional value (Python's None or a value) is a set with at most one  *)
(* element: {} is None.                                                    *)
(*                                                                         *)
(* Time is counted in ticks since midnight of day 0. A tick stands for     *)
(* the resolution of datetime (one microsecond in the source); the model   *)
(* uses a resolution of a quarter of an hour, so that the last instant of  *)
(* an hour, hh:59:59.999999, is the hour's last tick.                      *)
(***************************************************************************)
EXTENDS Integers, Sequences, FiniteSets, TLC

VARIABLES
    config,             \* the WeatherConfig in force (weather_config.default_config)
    forecasts,          \* find_forecast_with_fallback: the entries, in input order
    target_hour_range,  \* find_forecast_with_fallback: <<start_hour, end_hour>>
    current_time,       \* find_forecast_with_fallback: now
    res_pc,             \* resolver position: "idle", "call", "done"
    res_out,            \* the triple find_forecast_with_fallback returned
    rpc,                \* retry_with_backoff position
    attempt,            \* retry_with_backoff: the loop index
    delay,              \* retry_with_backoff: the next sleep's length
    outcomes,           \* what each call of func did, in order
    sleeps,             \* the length of each time.sleep made, in order
    retval,             \* what retry_with_backoff returned (an optional response)
    provider,           \* get_forecast: the fetcher's source
    apc,                \* get_forecast position
    step,               \* get_forecast: the request under way ("point" is NOAA's first)
    body,               \* get_forecast: what the response body holds
    fetch_out,          \* what get_forecast returned (an optional ForecastResult)
    locations,          \* get_all_forecasts: the location names, in dict order
    loc_i,              \* get_all_forecasts: index of the outer loop
    fetcher_i,          \* get_all_forecasts: index of the inner loop over FETCHERS
    results,            \* get_all_forecasts: the list being built
    fetch_log,          \* every get_forecast call made and what it returned
    agg_pc,             \* get_all_forecasts position
    api_status,         \* print_summary: the sources it lists as successful, as failed
    forecasts_morning,  \* __main__: the forecasts collected for the ride in
    forecasts_evening,  \* __main__: the forecasts collected for the ride back
    full_report,        \* __main__: the two reports print_summary returned
    weather_analysis,   \* evaluate_ride_full_day2: what analyze_full_day_weather gave
    chat_evaluation,    \* __main__: what evaluate_ride_full_day2 returned
    should_ride,        \* __main__: the should_ride the email is built from
    email,              \* __main__: the email sent: "none", "formatted", "fallback"
    day_pc,             \* __main__ position within one user's run
    risk_forecast,      \* categorize_weather_risk: the ForecastResult given
    risk,               \* categorize_weather_risk: the dict returned
    users_file,         \* UserService: the "users" list of users.json
    users_before,       \* the "users" list as it was when the last request arrived
    http_request,       \* api_server: the last request handled
    http_response,      \* api_server: its status code and what the service call gave
    http_pc,            \* api_server: "listening" while requests are served
    http_calls,         \* api_server: the number of requests handled
    lock,               \* UserService._lock: the thread holding it, 0 when free
    threads,            \* per calling thread: position, call, data read, outcome
    serial              \* the calls that wrote, applied one after another

resolveVars == <<forecasts, target_hour_range, current_time, res_pc, res_out>>
retryVars == <<rpc, attempt, delay, outcomes, sleeps, retval>>
fetchVars == <<provider, apc, step, body, fetch_out>>
aggVars == <<locations, loc_i, fetcher_i, results, fetch_log, agg_pc, api_status>>
dayVars == <<forecasts_morning, forecasts_evening, full_report, weather_analysis,
             chat_evaluation, should_ride, email, day_pc, risk_forecast, risk>>
userVars == <<users_file, users_before, http_request, http_response, http_pc,
              http_calls, lock, threads, serial>>
vars == <<config, resolveVars, retryVars, fetchVars, aggVars, dayVars, userVars>>

None == {}
Some(x) == {x}
The(opt) == CHOOSE x \in opt : TRUE

(***************************************************************************)
(* Bounds of the model.                                                    *)
(***************************************************************************)
MaxEntries == 3              \* longest entry list given to the resolver
MaxFallbackWindowHours == 3  \* largest fallback_window_hours tried
MaxRetriesBound == 3         \* largest max_retries tried
MaxBaseDelay == 2            \* largest retry_delay_base tried
MaxFetchRetries == 1         \* largest max_retries tried under get_forecast
MaxFetchEntries == 2         \* longest series a response body carries
MaxLocations == 2            \* most locations given to get_all_forecasts
MaxLegForecasts == 1         \* most forecasts collected for one leg of the day
MaxRainPercent == 100        \* largest chance_of_rain given to categorize_weather_risk
MaxRequests == 2             \* most HTTP requests served one after another
MaxUserId == 3               \* largest user id a request names
MaxThreads == 2              \* threads calling one UserService at the same time

(***************************************************************************)
(* weather_config.WeatherConfig and its defaults.                          *)
(***************************************************************************)
AllApis == {"openweather", "weatherapi", "tomorrowio", "noaa"}

DefaultConfig ==
    [enable_fallback |-> TRUE,
     fallback_window_hours |-> 3,
     enable_retries |-> TRUE,
     max_retries |-> 2,
     retry_delay_base |-> 1,
     retry_delay_max |-> 10,
     enabled_apis |-> AllApis]

(***************************************************************************)
(* datetime arithmetic.                                                    *)
(***************************************************************************)
TicksPerHour == 4
HoursPerDay == 24
TicksPerDay == HoursPerDay * TicksPerHour

Abs(x) == IF x < 0 THEN -x ELSE x

\* datetime.hour
HourOf(t) == (t \div TicksPerHour) % HoursPerDay

\* midnight of the day of t: what replace(hour=.., minute=.., ..) keeps
DayStart(t) == t - (t % TicksPerDay)

\* timedelta / 2: the quotient rounded to the resolution, halves to even
HalfRoundEven(d) ==
    LET q == d \div 2
        r == d % 2
    IN  IF r = 0 \/ q % 2 = 0 THEN q ELSE q + 1

(***************************************************************************)
(* api_utils.find_forecast_with_fallback                                   *)
(***************************************************************************)
\* time_extractor(forecast)
time_extractor(forecast) == forecast.time

\* Mutant: only forecasts of an earlier day are skipped.
IsPast_earlierDay(forecast_time, now) == forecast_time < DayStart(now)

\* Mutant: past forecasts are not skipped.
IsPast_never(forecast_time, now) == FALSE

\* "Skip past forecasts": forecast_time < current_time
IsPast(forecast_time, now) == forecast_time < now

\* Mutant: the end hour is not tested.
InTargetHours_startOnly(forecast_time, range) ==
    range[1] <= HourOf(forecast_time)

\* Mutant: the end hour is excluded.
InTargetHours_exclusive(forecast_time, range) ==
    range[1] <= HourOf(forecast_time) /\ HourOf(forecast_time) < range[2]

\* start_hour <= forecast_time.hour <= end_hour
InTargetHours(forecast_time, range) ==
    range[1] <= HourOf(forecast_time) /\ HourOf(forecast_time) <= range[2]

\* The first pass: the index of the first entry that is not past and whose hour
\* is in the range, 0 when there is none.
RECURSIVE ExactScan(_, _, _, _)
ExactScan(fs, range, now, i) ==
    IF i > Len(fs) THEN 0
    ELSE IF IsPast(time_extractor(fs[i]), now) THEN ExactScan(fs, range, now, i + 1)
    ELSE IF InTargetHours(time_extractor(fs[i]), range) THEN i
    ELSE ExactScan(fs, range, now, i + 1)

\* Mutant: the window is never shifted to tomorrow.
WindowElapsed_never(target_end, now) == FALSE

\* target_end < current_time: the window of today is over
WindowElapsed(target_end, now) == target_end < now

\* target_start and target_end, shifted to tomorrow when today's window is over
TargetWindow(range, now) ==
    LET target_start == DayStart(now) + range[1] * TicksPerHour
        target_end == DayStart(now) + range[2] * TicksPerHour + (TicksPerHour - 1)
    IN  IF WindowElapsed(target_end, now)
        THEN [target_start |-> target_start + TicksPerDay,
              target_end |-> target_end + TicksPerDay]
        ELSE [target_start |-> target_start, target_end |-> target_end]

\* Mutant: the band is twice as wide.
FallbackBand_doubled(w, cfg) ==
    [fallback_start |-> w.target_start - 2 * cfg.fallback_window_hours * TicksPerHour,
     fallback_end |-> w.target_end + 2 * cfg.fallback_window_hours * TicksPerHour]

\* fallback_start and fallback_end
FallbackBand(w, cfg) ==
    [fallback_start |-> w.target_start - cfg.fallback_window_hours * TicksPerHour,
     fallback_end |-> w.target_end + cfg.fallback_window_hours * TicksPerHour]

\* fallback_start <= forecast_time <= fallback_end
InBand(forecast_time, band) ==
    band.fallback_start <= forecast_time /\ forecast_time <= band.fallback_end

\* target_center
TargetCenter(w) == w.target_start + HalfRoundEven(w.target_end - w.target_start)

\* distance, in ticks
Distance(forecast_time, w) == Abs(forecast_time - TargetCenter(w))

\* float('inf')
Inf == -1

\* Mutant: the comparison is turned around, the farthest entry wins.
Closer_farthest(distance, min_distance) == min_distance = Inf \/ distance > min_distance

\* Mutant: an entry at the same distance replaces the best one.
Closer_orEqual(distance, min_distance) == min_distance = Inf \/ distance <= min_distance

\* distance < min_distance
Closer(distance, min_distance) == min_distance = Inf \/ distance < min_distance

\* Mutant: the hours are rounded up instead of truncated.
OffsetHours_roundUp(forecast_time, w) ==
    IF forecast_time < w.target_start
    THEN -((w.target_start - forecast_time + TicksPerHour - 1) \div TicksPerHour)
    ELSE IF forecast_time > w.target_end
    THEN (forecast_time - w.target_end + TicksPerHour - 1) \div TicksPerHour
    ELSE 0

\* Mutant: the sign of an earlier entry's offset is lost.
OffsetHours_unsigned(forecast_time, w) ==
    IF forecast_time < w.target_start
    THEN (w.target_start - forecast_time) \div TicksPerHour
    ELSE IF forecast_time > w.target_end
    THEN (forecast_time - w.target_end) \div TicksPerHour
    ELSE 0

\* best_offset: whole hours to the nearer edge of the window, signed
OffsetHours(forecast_time, w) ==
    IF forecast_time < w.target_start
    THEN -((w.target_start - forecast_time) \div TicksPerHour)
    ELSE IF forecast_time > w.target_end
    THEN (forecast_time - w.target_end) \div TicksPerHour
    ELSE 0

\* The second pass: the loop over the entries, carrying best_forecast (an index,
\* 0 for None), best_offset and min_distance.
RECURSIVE FallbackScan(_, _, _, _, _, _)
FallbackScan(fs, w, band, now, i, best) ==
    IF i > Len(fs) THEN best
    ELSE LET t == time_extractor(fs[i])
         IN  IF IsPast(t, now) THEN FallbackScan(fs, w, band, now, i + 1, best)
             ELSE IF InBand(t, band) /\ Closer(Distance(t, w), best.min_distance)
             THEN FallbackScan(fs, w, band, now, i + 1,
                               [best_forecast |-> i,
                                best_offset |-> Some(OffsetHours(t, w)),
                                min_distance |-> Distance(t, w)])
             ELSE FallbackScan(fs, w, band, now, i + 1, best)

NoBest == [best_forecast |-> 0, best_offset |-> None, min_distance |-> Inf]

\* The triple returned: the entry's index in the input (None when no entry),
\* used_fallback and offset_hours.
find_forecast_with_fallback(fs, range, now, cfg) ==
    LET exact == ExactScan(fs, range, now, 1)
        w == TargetWindow(range, now)
        best == FallbackScan(fs, w, FallbackBand(w, cfg), now, 1, NoBest)
    IN  IF exact # 0
        THEN [forecast |-> Some(exact), used_fallback |-> FALSE, offset_hours |-> None]
        ELSE IF ~cfg.enable_fallback
        THEN [forecast |-> None, used_fallback |-> FALSE, offset_hours |-> None]
        ELSE IF best.best_forecast # 0
        THEN [forecast |-> Some(best.best_forecast), used_fallback |-> TRUE,
              offset_hours |-> best.best_offset]
        ELSE [forecast |-> None, used_fallback |-> FALSE, offset_hours |-> None]

NoResult == [forecast |-> None, used_fallback |-> FALSE, offset_hours |-> None]

(***************************************************************************)
(* The inputs the resolver is tried on.                                    *)
(***************************************************************************)
At(day, hour, quarter) == day * TicksPerDay + hour * TicksPerHour + quarter

\* Entry times around the morning window, today and tomorrow: on the band's
\* edge, before the window, inside it, on its last tick, right after it, later.
EntryTimes ==
    {At(0, 4, 0), At(0, 6, 0), At(0, 8, 0), At(0, 9, 3), At(0, 10, 0),
     At(0, 11, 0), At(0, 13, 0), At(1, 6, 0), At(1, 8, 0)}

NowTimes == {At(0, 5, 0), At(0, 8, 2), At(0, 10, 1)}

HourRanges == {<<7, 9>>, <<8, 8>>, <<9, 7>>}

RECURSIVE SeqsUpTo(_, _)
SeqsUpTo(S, n) ==
    IF n = 0 THEN {<<>>}
    ELSE LET shorter == SeqsUpTo(S, n - 1)
         IN  shorter \cup {Append(s, x) : s \in {q \in shorter : Len(q) = n - 1}, x \in S}

EntryLists == SeqsUpTo([time : EntryTimes], MaxEntries)

ResolveConfigs ==
    {[DefaultConfig EXCEPT !.enable_fallback = f, !.fallback_window_hours = h] :
        f \in BOOLEAN, h \in 0..MaxFallbackWindowHours}

RetryIdle ==
    /\ rpc = "idle"
    /\ attempt = 0
    /\ delay = 0
    /\ outcomes = <<>>
    /\ sleeps = <<>>
    /\ retval = None

ResolveIdle ==
    /\ forecasts = <<>>
    /\ target_hour_range = <<8, 9>>
    /\ current_time = 0
    /\ res_pc = "idle"
    /\ res_out = NoResult

FetchIdle ==
    /\ provider = "none"
    /\ apc = "idle"
    /\ step = "none"
    /\ body = "none"
    /\ fetch_out = None

AggIdle ==
    /\ locations = <<>>
    /\ loc_i = 0
    /\ fetcher_i = 0
    /\ results = <<>>
    /\ fetch_log = <<>>
    /\ agg_pc = "idle"
    /\ api_status = [successful |-> {}, failed |-> {}]

NoReply == [json |-> FALSE, object |-> FALSE, should_ride |-> "absent"]

DayIdle ==
    /\ forecasts_morning = <<>>
    /\ forecasts_evening = <<>>
    /\ full_report = <<>>
    /\ weather_analysis =
           [morning_conditions |-> [rain |-> 0, wind |-> 0, temp |-> 700],
            evening_conditions |-> [rain |-> 0, wind |-> 0, temp |-> 700],
            overall_risk |-> "minimal",
            critical_factors |-> <<>>]
    /\ chat_evaluation = NoReply
    /\ should_ride = None
    /\ email = "none"
    /\ day_pc = "idle"
    /\ risk_forecast = [chance_of_rain |-> 0, wind_kph |-> 0, temp_c |-> 0]
    /\ risk = [rain |-> "none", wind |-> "none", temperature |-> "none",
               overall |-> "none"]

\* The calling threads.
Threads == 1..MaxThreads

NoCall == [name |-> "none", user_id |-> 0, user_data |-> <<>>, partial |-> TRUE,
           enabled |-> TRUE]

NoRequest == [method |-> "none", user_id |-> 0, user_data |-> <<>>]

NoResponse == [status_code |-> 0, result |-> "none"]

UserIdle ==
    /\ users_file = <<>>
    /\ users_before = <<>>
    /\ http_request = NoRequest
    /\ http_response = NoResponse
    /\ http_pc = "idle"
    /\ http_calls = 0
    /\ lock = 0
    /\ threads = [t \in Threads |-> [pc |-> "idle", call |-> NoCall, data |-> <<>>,
                                     ret |-> "none"]]
    /\ serial = <<>>

InitResolve ==
    /\ config \in ResolveConfigs
    /\ forecasts \in EntryLists
    /\ target_hour_range \in HourRanges
    /\ current_time \in NowTimes
    /\ res_pc = "call"
    /\ res_out = NoResult
    /\ RetryIdle
    /\ FetchIdle
    /\ AggIdle
    /\ DayIdle
    /\ UserIdle

\* One call of find_forecast_with_fallback on the inputs drawn.
Resolve ==
    /\ res_pc = "call"
    /\ res_out' = find_forecast_with_fallback(forecasts, target_hour_range,
                                              current_time, config)
    /\ res_pc' = "done"
    /\ UNCHANGED <<config, forecasts, target_hour_range, current_time, retryVars,
                   fetchVars, aggVars, dayVars, userVars>>

NextResolve == Resolve

SpecResolve == InitResolve /\ [][NextResolve]_vars

(***************************************************************************)
(* api_utils.retry_with_backoff                                            *)
(*                                                                         *)
(* func() is the remote call: it returns a response with an HTTP status or *)
(* raises. A response is [status, call], call being the number of the call *)
(* of func that produced it.                                               *)
(***************************************************************************)
HttpStatuses == {200, 400, 404, 429, 499, 500}

FuncOutcomes ==
    [kind : {"response"}, status : HttpStatuses]
        \cup [kind : {"timeout", "connection_error", "exception"}, status : {0}]

\* func() raised instead of returning a response
Raised(o) == o.kind # "response"

\* response.raise_for_status() raises HTTPError
RaisesForStatus(status) == 400 <= status /\ status < 600

\* Mutant: the lower bound is exclusive, a 400 is retried.
IsTerminalClientError_above400(status) == 400 < status /\ status < 500 /\ status # 429

\* Mutant: 429 is treated as a client error like the others.
IsTerminalClientError_all4xx(status) == 400 <= status /\ status < 500

\* 400 <= e.response.status_code < 500 and e.response.status_code != 429
IsTerminalClientError(status) == 400 <= status /\ status < 500 /\ status # 429

\* "Don't sleep after the last attempt": attempt < config.max_retries
SleepBeforeNext(i, cfg) == i < cfg.max_retries

\* Mutant: the loop runs once more than max_retries + 1.
InRange_offByOne(i, cfg) == i < cfg.max_retries + 2

\* for attempt in range(config.max_retries + 1)
InRange(i, cfg) == i < cfg.max_retries + 1

\* Mutant: the cap is forgotten.
NextDelay_uncapped(d, cfg) == d * 2

\* min(delay * 2, config.retry_delay_max)
NextDelay(d, cfg) == IF d * 2 <= cfg.retry_delay_max THEN d * 2 ELSE cfg.retry_delay_max

\* The except clauses of the loop: Timeout, ConnectionError, (HTTPError,) Exception
LoopCatches(kind) == kind \in {"timeout", "connection_error", "exception"}

\* Retries disabled: "except Exception"
SingleCatches(kind) == kind \in {"timeout", "connection_error", "exception"}

\* Where the for loop goes with index i: into its body or past its end.
LoopAt(i, cfg) == IF InRange(i, cfg) THEN "try" ELSE "exhausted"

Response(o, n) == [status |-> o.status, call |-> n]

\* Retries disabled: "try: return func() / except Exception: return None"
SingleResult(o, n) == IF Raised(o) THEN None ELSE Some(Response(o, n))

\* The entry of retry_with_backoff: the test of enable_retries, delay's start.
RetryEnter ==
    /\ rpc = "enter"
    /\ rpc' = IF config.enable_retries THEN LoopAt(0, config) ELSE "single"
    /\ delay' = IF config.enable_retries THEN config.retry_delay_base ELSE delay
    /\ attempt' = 0
    /\ UNCHANGED <<config, outcomes, sleeps, retval, resolveVars, fetchVars, aggVars, dayVars,
                   userVars>>

\* Retries disabled: the one call of func.
RetrySingle ==
    /\ rpc = "single"
    /\ \E o \in FuncOutcomes :
        /\ outcomes' = Append(outcomes, o)
        /\ retval' = SingleResult(o, Len(outcomes) + 1)
        /\ rpc' = IF Raised(o) /\ ~SingleCatches(o.kind) THEN "raised" ELSE "done"
    /\ UNCHANGED <<config, attempt, delay, sleeps, resolveVars, fetchVars, aggVars, dayVars,
                   userVars>>

\* One pass of the loop body up to the sleep: the call, raise_for_status and the
\* except clauses.
RetryAttempt ==
    /\ rpc = "try"
    /\ \E o \in FuncOutcomes :
        /\ outcomes' = Append(outcomes, o)
        /\ IF Raised(o) /\ ~LoopCatches(o.kind)
           THEN /\ retval' = retval
                /\ rpc' = "raised"
                /\ attempt' = attempt
           ELSE IF ~Raised(o) /\ ~RaisesForStatus(o.status)
           THEN /\ retval' = Some(Response(o, Len(outcomes) + 1))
                /\ rpc' = "done"
                /\ attempt' = attempt
           ELSE IF ~Raised(o) /\ IsTerminalClientError(o.status)
           THEN /\ retval' = None
                /\ rpc' = "done"
                /\ attempt' = attempt
           ELSE IF SleepBeforeNext(attempt, config)
           THEN /\ retval' = retval
                /\ rpc' = "sleep"
                /\ attempt' = attempt
           ELSE /\ retval' = retval
                /\ rpc' = LoopAt(attempt + 1, config)
                /\ attempt' = attempt + 1
    /\ UNCHANGED <<config, delay, sleeps, resolveVars, fetchVars, aggVars, dayVars,
                   userVars>>

\* time.sleep(delay), the doubling of delay, and the loop's next index.
RetrySleep ==
    /\ rpc = "sleep"
    /\ sleeps' = Append(sleeps, delay)
    /\ delay' = NextDelay(delay, config)
    /\ attempt' = attempt + 1
    /\ rpc' = LoopAt(attempt + 1, config)
    /\ UNCHANGED <<config, outcomes, retval, resolveVars, fetchVars, aggVars, dayVars,
                   userVars>>

\* Past the loop: "failed after max_retries + 1 attempts", return None.
RetryExhausted ==
    /\ rpc = "exhausted"
    /\ retval' = None
    /\ rpc' = "done"
    /\ UNCHANGED <<config, attempt, delay, outcomes, sleeps, resolveVars, fetchVars, aggVars, dayVars,
                   userVars>>

DelayCaps == {1, 3, 10}

RetryConfigs ==
    {[DefaultConfig EXCEPT !.enable_retries = e, !.max_retries = m,
                           !.retry_delay_base = b, !.retry_delay_max = c] :
        e \in BOOLEAN, m \in 0..MaxRetriesBound, b \in 0..MaxBaseDelay, c \in DelayCaps}

InitRetry ==
    /\ config \in RetryConfigs
    /\ rpc = "enter"
    /\ attempt = 0
    /\ delay = 0
    /\ outcomes = <<>>
    /\ sleeps = <<>>
    /\ retval = None
    /\ ResolveIdle
    /\ FetchIdle
    /\ AggIdle
    /\ DayIdle
    /\ UserIdle

NextRetry == RetryEnter \/ RetrySingle \/ RetryAttempt \/ RetrySleep \/ RetryExhausted

SpecRetry == InitRetry /\ [][NextRetry]_vars

\* func returns or raises within its timeout and time.sleep returns: a call of
\* retry_with_backoff that can take a step takes one.
FairSpecRetry == SpecRetry /\ WF_vars(NextRetry)

(***************************************************************************)
(* fetchers/*.py: get_forecast of OpenWeather, WeatherAPI, TomorrowIO, NOAA *)
(*                                                                         *)
(* A response body is "malformed_json" (response.json() raises),           *)
(* "missing_keys" (the keys that lead to the series are absent) or         *)
(* "series"; a series is a list of entries, possibly empty, whose entries  *)
(* are "ok", have no readable time ("bad_time") or lack the weather fields *)
(* ("bad_fields").                                                         *)
(***************************************************************************)
Sources == <<"openweather", "weatherapi", "tomorrowio", "noaa">>

\* bool(response): requests.Response.__bool__ is Response.ok
ResponseOk(r) == r.status < 400

\* Mutant: the enabled_apis test is left out.
IsEnabled_always(source, cfg) == TRUE

\* "<source>" in default_config.enabled_apis
IsEnabled(source, cfg) == source \in cfg.enabled_apis

\* NOAA looks up the grid point first, then fetches the hourly forecast.
FirstStep(source) == IF source = "noaa" THEN "point" ELSE "forecast"

\* Whether the call of retry_with_backoff is inside the fetcher's try block:
\* NOAA's try starts before its first request, the others' after the request.
RequestInTry(source) == source = "noaa"

\* Mutant: the parsing is outside the try block.
ParseInTry_none(source) == FALSE

\* Whether response.json() and the reading of the body are inside the try block.
ParseInTry(source) == TRUE

\* Absent keys on the way to the series: NOAA indexes (KeyError), the others
\* use .get with an empty default and return None on the empty series.
MissingKeysRaise(source) == source = "noaa"

\* Absent weather fields of the selected entry: TomorrowIO reads them with
\* .get and a default, the others index (KeyError).
MissingFieldsRaise(source) == source # "tomorrowio"

\* Mutant: an absent offset is stored as 0.
ForecastResult_zeroOffset(source, triple, fs) ==
    [source |-> source,
     forecast_datetime |-> fs[CHOOSE i \in triple.forecast : TRUE].time,
     used_fallback |-> triple.used_fallback,
     fallback_offset_hours |-> IF triple.offset_hours = None THEN Some(0)
                               ELSE triple.offset_hours]

\* ForecastResult(..., forecast_datetime=forecast_time, used_fallback=used_fallback,
\* fallback_offset_hours=offset_hours)
ForecastResult(source, triple, fs) ==
    [source |-> source,
     forecast_datetime |-> fs[CHOOSE i \in triple.forecast : TRUE].time,
     used_fallback |-> triple.used_fallback,
     fallback_offset_hours |-> triple.offset_hours]

\* What an exception does at a place of get_forecast: caught by the fetcher's
\* "except Exception: return None" when the place is inside the try block.
AfterException(inTry) == IF inTry THEN "done" ELSE "raised"

\* The entry of get_forecast: the enabled_apis test, then the first request.
FetchStart ==
    /\ apc = "start"
    /\ IF ~IsEnabled(provider, config)
       THEN /\ apc' = "done"
            /\ fetch_out' = None
            /\ UNCHANGED <<step, rpc>>
       ELSE /\ apc' = "request"
            /\ step' = FirstStep(provider)
            /\ rpc' = "enter"
            /\ UNCHANGED fetch_out
    /\ UNCHANGED <<config, provider, body, attempt, delay, outcomes, sleeps, retval,
                   resolveVars, aggVars, dayVars, userVars>>

\* retry_with_backoff has returned or raised: "if not response: return None".
FetchResponse ==
    /\ apc = "request"
    /\ rpc \in {"done", "raised"}
    /\ IF rpc = "raised"
       THEN apc' = AfterException(RequestInTry(provider))
       ELSE IF retval = None \/ \E r \in retval : ~ResponseOk(r)
       THEN apc' = "done"
       ELSE apc' = "parse"
    /\ fetch_out' = None
    /\ rpc' = "idle"
    /\ attempt' = 0
    /\ delay' = 0
    /\ outcomes' = <<>>
    /\ sleeps' = <<>>
    /\ retval' = None
    /\ UNCHANGED <<config, provider, step, body, resolveVars, aggVars, dayVars, userVars>>

SeriesTimes == {At(0, 6, 0), At(0, 8, 0), At(0, 11, 0)}
SeriesLists == SeqsUpTo([time : SeriesTimes], MaxFetchEntries)
SeriesNows == {At(0, 5, 0), At(0, 8, 2)}
BodyKinds == {"malformed_json", "missing_keys", "series", "bad_time", "bad_fields"}

\* response.json() and the reading of the series out of the body; for NOAA's
\* point lookup, the reading of the forecast URL and the second request.
FetchParse ==
    /\ apc = "parse"
    /\ \E b \in BodyKinds :
        /\ body' = b
        /\ IF b = "malformed_json"
           THEN /\ apc' = AfterException(ParseInTry(provider))
                /\ UNCHANGED <<step, rpc, forecasts, current_time>>
           ELSE IF b = "missing_keys"
           THEN /\ apc' = IF MissingKeysRaise(provider)
                          THEN AfterException(ParseInTry(provider)) ELSE "done"
                /\ UNCHANGED <<step, rpc, forecasts, current_time>>
           ELSE IF step = "point"
           THEN /\ apc' = "request"
                /\ step' = "forecast"
                /\ rpc' = "enter"
                /\ UNCHANGED <<forecasts, current_time>>
           ELSE /\ \E fs \in SeriesLists, now \in SeriesNows :
                    /\ forecasts' = fs
                    /\ current_time' = now
                    /\ apc' = IF fs = <<>> THEN "done" ELSE "select"
                /\ UNCHANGED <<step, rpc>>
    /\ fetch_out' = None
    /\ UNCHANGED <<config, provider, attempt, delay, outcomes, sleeps, retval,
                   target_hour_range, res_pc, res_out, aggVars, dayVars, userVars>>

\* find_forecast_with_fallback on the series, then the ForecastResult.
FetchSelect ==
    /\ apc = "select"
    /\ LET triple == find_forecast_with_fallback(forecasts, target_hour_range,
                                                 current_time, config)
       IN  IF body = "bad_time"
           THEN /\ apc' = AfterException(ParseInTry(provider))
                /\ UNCHANGED <<res_out, fetch_out>>
           ELSE /\ res_out' = triple
                /\ IF triple.forecast = None
                   THEN /\ apc' = "done"
                        /\ fetch_out' = None
                   ELSE IF body = "bad_fields" /\ MissingFieldsRaise(provider)
                   THEN /\ apc' = AfterException(ParseInTry(provider))
                        /\ fetch_out' = None
                   ELSE /\ apc' = "done"
                        /\ fetch_out' = Some(ForecastResult(provider, triple, forecasts))
    /\ UNCHANGED <<config, provider, step, body, forecasts, target_hour_range,
                   current_time, res_pc, retryVars, aggVars, dayVars, userVars>>

FetchConfigs ==
    {[DefaultConfig EXCEPT !.enable_retries = e, !.max_retries = m,
                           !.enable_fallback = f, !.enabled_apis = a] :
        e \in BOOLEAN, m \in 0..MaxFetchRetries, f \in BOOLEAN,
        a \in {AllApis} \cup {AllApis \ {x} : x \in AllApis}}

InitFetch ==
    /\ config \in FetchConfigs
    /\ provider \in {Sources[i] : i \in 1..Len(Sources)}
    /\ apc = "start"
    /\ step = "none"
    /\ body = "none"
    /\ fetch_out = None
    /\ target_hour_range = <<7, 9>>
    /\ forecasts = <<>>
    /\ current_time = 0
    /\ res_pc = "idle"
    /\ res_out = NoResult
    /\ RetryIdle
    /\ AggIdle
    /\ DayIdle
    /\ UserIdle

NextFetch ==
    \/ FetchStart \/ FetchResponse \/ FetchParse \/ FetchSelect
    \/ RetryEnter \/ RetrySingle \/ RetryAttempt \/ RetrySleep \/ RetryExhausted

SpecFetch == InitFetch /\ [][NextFetch]_vars

(***************************************************************************)
(* ridecast.get_all_forecasts                                              *)
(*                                                                         *)
(* fetcher.get_forecast is taken by what it returns: None, or a            *)
(* ForecastResult of the fetcher's source.                                 *)
(***************************************************************************)
FETCHERS == Sources

LocationNames == <<"home", "work", "gym">>

\* What fetcher.get_forecast may return under cfg: None when the source is
\* disabled, otherwise None or a ForecastResult.
GetForecastReturns(source, cfg) ==
    IF IsEnabled(source, cfg)
    THEN {None, Some([source |-> source])}
    ELSE {None}

\* Mutant: a fetcher that returns None ends the loop over the fetchers.
KeepsGoing_breakOnNone(result) == result # None

\* The loops have no break: the next fetcher is called whatever was returned.
KeepsGoing(result) == TRUE

\* "if result:": a ForecastResult is truthy, None is not
Truthy(result) == result # None

\* One pass of the inner loop body: the call of get_forecast and the append.
AggFetch ==
    /\ agg_pc = "loop"
    /\ loc_i <= Len(locations)
    /\ \E result \in GetForecastReturns(FETCHERS[fetcher_i], config) :
        /\ fetch_log' = Append(fetch_log, [loc |-> locations[loc_i],
                                           source |-> FETCHERS[fetcher_i],
                                           result |-> result])
        /\ results' = IF Truthy(result)
                      THEN Append(results, <<locations[loc_i], The(result)>>)
                      ELSE results
        /\ IF fetcher_i < Len(FETCHERS) /\ KeepsGoing(result)
           THEN /\ fetcher_i' = fetcher_i + 1
                /\ loc_i' = loc_i
           ELSE /\ fetcher_i' = 1
                /\ loc_i' = loc_i + 1
    /\ UNCHANGED <<config, locations, agg_pc, api_status,
                   resolveVars, retryVars, fetchVars, dayVars, userVars>>

\* The loop over locations is over: return results.
AggReturn ==
    /\ agg_pc = "loop"
    /\ loc_i > Len(locations)
    /\ agg_pc' = "done"
    /\ UNCHANGED <<config, locations, loc_i, fetcher_i, results, fetch_log, api_status,
                   resolveVars, retryVars, fetchVars, dayVars, userVars>>

\* {f.source for f in [OpenWeather(), WeatherAPI(), TomorrowIO(), NOAA()]}
all_sources == {"openweather", "weatherapi", "tomorrowio", "noaa"}

\* Mutant: only the last forecast's source is counted.
successful_sources_lastOnly(forecasts_) ==
    IF forecasts_ = <<>> THEN {} ELSE {forecasts_[Len(forecasts_)][2].source}

\* {result.source for _, result in forecasts}
successful_sources(forecasts_) ==
    {forecasts_[i][2].source : i \in 1..Len(forecasts_)}

\* all_sources - successful_sources
failed_sources(forecasts_) == all_sources \ successful_sources(forecasts_)

\* print_summary on the list get_all_forecasts returned: the sources its
\* "APIs successful" and "APIs failed" lines name.
AggSummary ==
    /\ agg_pc = "done"
    /\ api_status' = [successful |-> successful_sources(results),
                      failed |-> failed_sources(results)]
    /\ agg_pc' = "reported"
    /\ UNCHANGED <<config, locations, loc_i, fetcher_i, results, fetch_log,
                   resolveVars, retryVars, fetchVars, dayVars, userVars>>

AggConfigs ==
    {[DefaultConfig EXCEPT !.enabled_apis = a] :
        a \in {AllApis} \cup {AllApis \ {x} : x \in AllApis}}

InitAgg ==
    /\ config \in AggConfigs
    /\ locations \in {SubSeq(LocationNames, 1, n) : n \in 0..MaxLocations}
    /\ loc_i = 1
    /\ fetcher_i = 1
    /\ results = <<>>
    /\ fetch_log = <<>>
    /\ agg_pc = "loop"
    /\ api_status = [successful |-> {}, failed |-> {}]
    /\ ResolveIdle
    /\ RetryIdle
    /\ FetchIdle
    /\ DayIdle
    /\ UserIdle

NextAgg == AggFetch \/ AggReturn \/ AggSummary

SpecAgg == InitAgg /\ [][NextAgg]_vars

(***************************************************************************)
(* evaluator.categorize_weather_risk                                       *)
(*                                                                         *)
(* A forecast carries chance_of_rain (percent), wind_kph and temp_c as     *)
(* whole numbers. wind_kph * 0.621371 >= T is compared as                  *)
(* wind_kph * 621371 >= T * 1000000, and temp_c * 9/5 + 32 <= T as         *)
(* temp_c * 9 + 160 <= T * 5.                                              *)
(***************************************************************************)
RainLow == 20
RainModerate == 50
RainHigh == 80
WindComfortable == 15
WindCaution == 25
WindDangerous == 35
TempColdLimit == 35
TempCoolComfort == 50
TempHotLimit == 95

MphMicro(wind_kph) == wind_kph * 621371
FahrenheitTimes5(temp_c) == temp_c * 9 + 160

\* Mutant: the high threshold is exclusive.
RainRisk_exclusiveHigh(chance_of_rain) ==
    IF chance_of_rain > RainHigh THEN "high"
    ELSE IF chance_of_rain >= RainModerate THEN "moderate"
    ELSE IF chance_of_rain >= RainLow THEN "low"
    ELSE "minimal"

RainRisk(chance_of_rain) ==
    IF chance_of_rain >= RainHigh THEN "high"
    ELSE IF chance_of_rain >= RainModerate THEN "moderate"
    ELSE IF chance_of_rain >= RainLow THEN "low"
    ELSE "minimal"

WindRisk(wind_kph) ==
    IF MphMicro(wind_kph) >= WindDangerous * 1000000 THEN "high"
    ELSE IF MphMicro(wind_kph) >= WindCaution * 1000000 THEN "moderate"
    ELSE IF MphMicro(wind_kph) >= WindComfortable * 1000000 THEN "low"
    ELSE "minimal"

\* Mutant: the cool_comfort threshold is exclusive.
TemperatureRisk_coolExclusive(temp_c) ==
    IF FahrenheitTimes5(temp_c) <= TempColdLimit * 5 THEN "high"
    ELSE IF FahrenheitTimes5(temp_c) >= TempHotLimit * 5 THEN "high"
    ELSE IF FahrenheitTimes5(temp_c) < TempCoolComfort * 5 THEN "moderate"
    ELSE "minimal"

TemperatureRisk(temp_c) ==
    IF FahrenheitTimes5(temp_c) <= TempColdLimit * 5 THEN "high"
    ELSE IF FahrenheitTimes5(temp_c) >= TempHotLimit * 5 THEN "high"
    ELSE IF FahrenheitTimes5(temp_c) <= TempCoolComfort * 5 THEN "moderate"
    ELSE "minimal"

\* Mutant: the 'low' branch is missing.
OverallRisk_skipsLow(risk_levels) ==
    IF "high" \in risk_levels THEN "high"
    ELSE IF "moderate" \in risk_levels THEN "moderate"
    ELSE "minimal"

\* "Calculate overall risk"
OverallRisk(risk_levels) ==
    IF "high" \in risk_levels THEN "high"
    ELSE IF "moderate" \in risk_levels THEN "moderate"
    ELSE IF "low" \in risk_levels THEN "low"
    ELSE "minimal"

categorize_weather_risk(forecast) ==
    [rain |-> RainRisk(forecast.chance_of_rain),
     wind |-> WindRisk(forecast.wind_kph),
     temperature |-> TemperatureRisk(forecast.temp_c),
     overall |-> OverallRisk({RainRisk(forecast.chance_of_rain),
                              WindRisk(forecast.wind_kph),
                              TemperatureRisk(forecast.temp_c)})]

NoRisk == [rain |-> "none", wind |-> "none", temperature |-> "none", overall |-> "none"]

\* The forecasts categorize_weather_risk is tried on: every whole rain
\* probability, and winds (kph) and temperatures (C) on both sides of each
\* threshold (15, 25, 35 mph are 24.1, 40.2, 56.3 kph; 35, 50, 95 F are
\* 1.7, 10, 35 C).
RiskWind == {0, 24, 25, 40, 41, 56, 57, 90}
RiskTemp == {-10, 1, 2, 10, 11, 34, 35, 45}
RiskForecasts ==
    [chance_of_rain : 0..MaxRainPercent, wind_kph : RiskWind, temp_c : RiskTemp]

\* One call of categorize_weather_risk on the forecast drawn.
Categorize ==
    /\ day_pc = "categorize"
    /\ risk' = categorize_weather_risk(risk_forecast)
    /\ day_pc' = "categorized"
    /\ UNCHANGED <<config, forecasts_morning, forecasts_evening, full_report,
                   weather_analysis, chat_evaluation, should_ride, email, risk_forecast,
                   resolveVars, retryVars, fetchVars, aggVars, userVars>>

InitRisk ==
    /\ config = DefaultConfig
    /\ risk_forecast \in RiskForecasts
    /\ risk = NoRisk
    /\ day_pc = "categorize"
    /\ forecasts_morning = <<>>
    /\ forecasts_evening = <<>>
    /\ full_report = <<>>
    /\ weather_analysis =
           [morning_conditions |-> [rain |-> 0, wind |-> 0, temp |-> 700],
            evening_conditions |-> [rain |-> 0, wind |-> 0, temp |-> 700],
            overall_risk |-> "minimal",
            critical_factors |-> <<>>]
    /\ chat_evaluation = NoReply
    /\ should_ride = None
    /\ email = "none"
    /\ ResolveIdle
    /\ RetryIdle
    /\ FetchIdle
    /\ AggIdle
    /\ UserIdle

NextRisk == Categorize

SpecRisk == InitRisk /\ [][NextRisk]_vars

(***************************************************************************)
(* ridecast.print_summary and evaluator.analyze_full_day_weather           *)
(*                                                                         *)
(* A report is the text print_summary returns for one leg, kept as what    *)
(* analyze_full_day_weather reads out of it: whether it contains           *)
(* "Morning", whether it contains "Evening", and the matches of the three  *)
(* patterns, in the order of the text. Wind and temperature are kept in    *)
(* tenths (of a mph, of a degree F), the precision the text shows.         *)
(***************************************************************************)
\* a / b rounded to the nearest whole number, halves to even: what the
\* format specifications .0f and .1f do to the value they print
RoundDiv(a, b) ==
    LET q == a \div b
        r == a % b
    IN  IF 2 * r < b THEN q
        ELSE IF 2 * r > b THEN q + 1
        ELSE IF q % 2 = 0 THEN q ELSE q + 1

\* f"{result.chance_of_rain:03.0f}% rain": the digits printed, padded with
\* zeros to three
RainDigits(chance_of_rain) ==
    LET n == RoundDiv(chance_of_rain, 1)
    IN  <<n \div 100, (n \div 10) % 10, n % 10>>

\* int(x) of a match of (\d+)
IntOfDigits(ds) == ds[1] * 100 + ds[2] * 10 + ds[3]

\* f"{kph_to_mph(result.wind_kph):04.1f} mph" read back by ([\d.]+) mph and
\* float(x): the tenths of a mph shown
WindShown(wind_kph) == RoundDiv(MphMicro(wind_kph), 100000)

\* f"{temp_to_fahrenheit(result.temp_c):.1f}°F" read back by ([\d.]+)°F and
\* float(x): the tenths of a degree shown; the pattern leaves a minus sign out
TempShown(temp_c) == Abs(RoundDiv(FahrenheitTimes5(temp_c) * 2, 1))

\* What the text evaluate_ride returned (the language model's answer for the
\* leg) adds to the report: words and numbers of its own.
AiTexts ==
    {[mentions |-> {}, rain |-> <<>>],
     [mentions |-> {"Morning"}, rain |-> <<>>],
     [mentions |-> {}, rain |-> <<85>>]}

NoAiText == [mentions |-> {}, rain |-> <<>>]

\* The lines of the "WEATHER DATA SOURCES" block, one per forecast.
RECURSIVE DataLines(_, _)
DataLines(forecasts_, i) ==
    IF i > Len(forecasts_) THEN [rain |-> <<>>, wind |-> <<>>, temp |-> <<>>]
    ELSE LET rest == DataLines(forecasts_, i + 1)
             result == forecasts_[i]
         IN  [rain |-> <<IntOfDigits(RainDigits(result.chance_of_rain))>> \o rest.rain,
              wind |-> <<WindShown(result.wind_kph)>> \o rest.wind,
              temp |-> <<TempShown(result.temp_c)>> \o rest.temp]

\* print_summary(user, forecasts, label): without forecasts it returns early
\* with the "No forecast data available" lines and calls no evaluation.
print_summary(forecasts_, label, ai_text) ==
    IF forecasts_ = <<>>
    THEN [mentions |-> {label}, no_data |-> TRUE,
          rain |-> <<>>, wind |-> <<>>, temp |-> <<>>]
    ELSE LET lines == DataLines(forecasts_, 1)
         IN  [mentions |-> {label} \cup ai_text.mentions, no_data |-> FALSE,
              rain |-> lines.rain \o ai_text.rain,
              wind |-> lines.wind,
              temp |-> lines.temp]

RECURSIVE MaxOf(_, _)
MaxOf(s, i) ==
    IF i = Len(s) THEN s[i]
    ELSE LET m == MaxOf(s, i + 1) IN IF s[i] >= m THEN s[i] ELSE m

RECURSIVE SumOf(_, _)
SumOf(s, i) == IF i > Len(s) THEN 0 ELSE s[i] + SumOf(s, i + 1)

\* morning_rain = evening_rain = 0, morning_wind = evening_wind = 0,
\* morning_temp = evening_temp = 70
DefaultConditions == [rain |-> 0, wind |-> 0, temp |-> 700]

\* The three "if ..._matches:" of one branch: a pattern without a match
\* leaves the value it had. The mean temperature is kept in whole tenths.
ReadConditions(report, before) ==
    [rain |-> IF report.rain # <<>> THEN MaxOf(report.rain, 1) ELSE before.rain,
     wind |-> IF report.wind # <<>> THEN MaxOf(report.wind, 1) ELSE before.wind,
     temp |-> IF report.temp # <<>>
              THEN SumOf(report.temp, 1) \div Len(report.temp)
              ELSE before.temp]

\* The loop over full_report: "if 'Morning' in report: ... elif 'Evening' in
\* report: ...".
RECURSIVE ParseReports(_, _, _)
ParseReports(full_report_, i, acc) ==
    IF i > Len(full_report_) THEN acc
    ELSE LET report == full_report_[i]
         IN  IF "Morning" \in report.mentions
             THEN ParseReports(full_report_, i + 1,
                      [acc EXCEPT !.morning = ReadConditions(report, acc.morning)])
             ELSE IF "Evening" \in report.mentions
             THEN ParseReports(full_report_, i + 1,
                      [acc EXCEPT !.evening = ReadConditions(report, acc.evening)])
             ELSE ParseReports(full_report_, i + 1, acc)

\* "Determine critical factors"
CriticalFactors(morning, evening) ==
    (IF evening.rain >= RainModerate
     THEN <<"Evening rain will trap you at work">> ELSE <<>>)
    \o (IF morning.rain >= RainHigh \/ evening.rain >= RainHigh
        THEN <<"Heavy rain forecast">> ELSE <<>>)
    \o (IF morning.wind >= WindDangerous * 10 \/ evening.wind >= WindDangerous * 10
        THEN <<"Dangerous wind conditions">> ELSE <<>>)

analyze_full_day_weather(full_report_) ==
    LET parsed == ParseReports(full_report_, 1,
                      [morning |-> DefaultConditions, evening |-> DefaultConditions])
        factors == CriticalFactors(parsed.morning, parsed.evening)
    IN  [morning_conditions |-> parsed.morning,
         evening_conditions |-> parsed.evening,
         overall_risk |-> IF factors # <<>> THEN "high" ELSE "minimal",
         critical_factors |-> factors]

NoAnalysis ==
    [morning_conditions |-> DefaultConditions,
     evening_conditions |-> DefaultConditions,
     overall_risk |-> "minimal",
     critical_factors |-> <<>>]

(***************************************************************************)
(* ridecast.__main__: one user's run from the two legs' forecasts to the   *)
(* email.                                                                  *)
(*                                                                         *)
(* evaluate_ride_full_day2 returns the text the language model answered    *)
(* (or "[OpenAI Error] ..."): it is JSON or not, a JSON object or not, and *)
(* an object gives should_ride as true, as false or not at all. Nothing in *)
(* the program ties that answer to the forecasts or to the analysis.       *)
(***************************************************************************)
ChatReplies ==
    [json : {TRUE}, object : {TRUE}, should_ride : {"true", "false", "absent"}]
        \cup {[json |-> TRUE, object |-> FALSE, should_ride |-> "absent"],
              [json |-> FALSE, object |-> FALSE, should_ride |-> "absent"]}

\* eval_data.get("should_ride", False)
GetShouldRide(reply) == reply.should_ride = "true"

\* full_report: print_summary of the morning leg, then of the evening leg.
DaySummaries ==
    /\ day_pc = "summaries"
    /\ \E ai_morning \in (IF forecasts_morning = <<>> THEN {NoAiText} ELSE AiTexts),
          ai_evening \in (IF forecasts_evening = <<>> THEN {NoAiText} ELSE AiTexts) :
        full_report' = <<print_summary(forecasts_morning, "Morning", ai_morning),
                         print_summary(forecasts_evening, "Evening", ai_evening)>>
    /\ day_pc' = "evaluate"
    /\ UNCHANGED <<config, forecasts_morning, forecasts_evening, weather_analysis,
                   chat_evaluation, should_ride, email, risk_forecast, risk,
                   resolveVars, retryVars, fetchVars, aggVars, userVars>>

\* chat_evaluation = evaluate_ride_full_day2(full_report, user): the reports
\* and the analysis of them go into the prompt, the answer is the model's.
DayEvaluate ==
    /\ day_pc = "evaluate"
    /\ weather_analysis' = analyze_full_day_weather(full_report)
    /\ chat_evaluation' \in ChatReplies
    /\ day_pc' = "email"
    /\ UNCHANGED <<config, forecasts_morning, forecasts_evening, full_report,
                   should_ride, email, risk_forecast, risk,
                   resolveVars, retryVars, fetchVars, aggVars, userVars>>

\* json.loads(chat_evaluation) and the email: the formatted one built from
\* should_ride, the fallback one on JSONDecodeError, none on another exception.
DayEmail ==
    /\ day_pc = "email"
    /\ IF ~chat_evaluation.json
       THEN /\ email' = "fallback"
            /\ should_ride' = None
       ELSE IF ~chat_evaluation.object
       THEN /\ email' = "none"
            /\ should_ride' = None
       ELSE /\ email' = "formatted"
            /\ should_ride' = Some(GetShouldRide(chat_evaluation))
    /\ day_pc' = "done"
    /\ UNCHANGED <<config, forecasts_morning, forecasts_evening, full_report,
                   weather_analysis, chat_evaluation, risk_forecast, risk,
                   resolveVars, retryVars, fetchVars, aggVars, userVars>>

DayRain == {0, 60, 90}
DayWind == {8, 60}
DayTemp == {0, 18}

\* The forecasts a leg is tried on: calm and dry, or off in one respect.
DayForecasts ==
    {f \in [chance_of_rain : DayRain, wind_kph : DayWind, temp_c : DayTemp] :
        Cardinality({k \in {"rain", "wind", "temp"} :
            \/ k = "rain" /\ f.chance_of_rain # 0
            \/ k = "wind" /\ f.wind_kph # 8
            \/ k = "temp" /\ f.temp_c # 18}) <= 1}

LegForecasts == SeqsUpTo(DayForecasts, MaxLegForecasts)

InitDay ==
    /\ config = DefaultConfig
    /\ forecasts_morning \in LegForecasts
    /\ forecasts_evening \in LegForecasts
    /\ full_report = <<>>
    /\ weather_analysis = NoAnalysis
    /\ chat_evaluation = NoReply
    /\ should_ride = None
    /\ email = "none"
    /\ day_pc = "summaries"
    /\ risk_forecast = [chance_of_rain |-> 0, wind_kph |-> 0, temp_c |-> 0]
    /\ risk = NoRisk
    /\ ResolveIdle
    /\ RetryIdle
    /\ FetchIdle
    /\ AggIdle
    /\ UserIdle

NextDay == DaySummaries \/ DayEvaluate \/ DayEmail

SpecDay == InitDay /\ [][NextDay]_vars

(***************************************************************************)
(* user_service.UserService.  A user is a dict: a function from the keys   *)
(* present to their values.  Of the fields of a user the model keeps id,   *)
(* NAME (required, and given no default by a PUT), EMAIL (required, and    *)
(* compared for conflicts) and ENABLED (given a default by a PUT).  NAME   *)
(* and EMAIL may be null in a UserUpdate: None, or Some(value).            *)
(***************************************************************************)
Emails == {"a@x.io", "A@x.io", "b@x.io"}

\* str.lower()
Lower(s) == IF s = "A@x.io" THEN "a@x.io" ELSE s

\* What a call of the service gives back: the list it leaves in the file,
\* whether it wrote the file, and the value returned or the error raised.
Errors == {"ValueError", "KeyError", "AttributeError", "ValidationError"}

\* UserResponse(**user): every required field is there and none is null
UserResponse(user) ==
    IF /\ {"id", "NAME", "EMAIL", "ENABLED"} \subseteq DOMAIN user
       /\ user["NAME"] # None
       /\ user["EMAIL"] # None
    THEN "UserResponse"
    ELSE "ValidationError"

\* for i, user in enumerate(users): if user["id"] == user_id; 0 for no index
RECURSIVE IndexOfId(_, _, _)
IndexOfId(users, user_id, i) ==
    IF i > Len(users) THEN 0
    ELSE IF users[i]["id"] = user_id THEN i
    ELSE IndexOfId(users, user_id, i + 1)

\* The loop over the other users' emails: other_user["EMAIL"].lower() raises
\* KeyError when the key is missing and AttributeError when the value is null;
\* an equal email raises ValueError; "none" when the loop ends.
RECURSIVE EmailConflict(_, _, _, _)
EmailConflict(users, user_index, new_email, i) ==
    IF i > Len(users) THEN "none"
    ELSE IF i = user_index THEN EmailConflict(users, user_index, new_email, i + 1)
    ELSE IF "EMAIL" \notin DOMAIN users[i] THEN "KeyError"
    ELSE IF users[i]["EMAIL"] = None THEN "AttributeError"
    ELSE IF Lower(The(users[i]["EMAIL"])) = new_email THEN "ValueError"
    ELSE EmailConflict(users, user_index, new_email, i + 1)

\* _get_next_user_id
get_next_user_id(users) ==
    IF users = <<>> THEN 1
    ELSE (CHOOSE m \in {users[i]["id"] : i \in 1..Len(users)} :
              \A i \in 1..Len(users) : users[i]["id"] <= m) + 1

get_user_by_id(users, user_id) ==
    LET i == IndexOfId(users, user_id, 1)
    IN  IF i = 0 THEN "None" ELSE UserResponse(users[i])

user_exists(users, user_id) ==
    LET user == get_user_by_id(users, user_id)
    IN  IF user \in Errors THEN user
        ELSE IF user = "None" THEN "False" ELSE "True"

create_user(users, user_data) ==
    LET conflict == EmailConflict(users, 0, Lower(The(user_data["EMAIL"])), 1)
        new_user == ("id" :> get_next_user_id(users)) @@ user_data
    IN  IF conflict # "none"
        THEN [users |-> users, written |-> FALSE, result |-> conflict]
        ELSE [users |-> Append(users, new_user), written |-> TRUE,
              result |-> UserResponse(new_user)]

\* "Fill in any missing required fields with defaults if not provided"
PutDefaults(updated_user) == updated_user @@ ("ENABLED" :> TRUE)

update_user(users, user_id, user_data, partial) ==
    LET user_index == IndexOfId(users, user_id, 1)
        update_dict == user_data
        conflict ==
            IF "EMAIL" \notin DOMAIN update_dict THEN "none"
            ELSE IF update_dict["EMAIL"] = None THEN "AttributeError"
            ELSE EmailConflict(users, user_index, Lower(The(update_dict["EMAIL"])), 1)
        existing_user ==
            IF partial
            THEN update_dict @@ users[user_index]
            ELSE PutDefaults(("id" :> user_id) @@ update_dict)
    IN  IF user_index = 0
        THEN [users |-> users, written |-> FALSE, result |-> "None"]
        ELSE IF conflict # "none"
        THEN [users |-> users, written |-> FALSE, result |-> conflict]
        ELSE [users |-> [users EXCEPT ![user_index] = existing_user],
              written |-> TRUE,
              result |-> UserResponse(existing_user)]

delete_user(users, user_id) ==
    LET i == IndexOfId(users, user_id, 1)
    IN  IF i = 0
        THEN [users |-> users, written |-> FALSE, result |-> "False"]
        ELSE [users |-> SubSeq(users, 1, i - 1) \o SubSeq(users, i + 1, Len(users)),
              written |-> TRUE, result |-> "True"]

update_user_enabled_status(users, user_id, enabled) ==
    LET i == IndexOfId(users, user_id, 1)
    IN  IF i = 0
        THEN [users |-> users, written |-> FALSE, result |-> "None"]
        ELSE [users |-> [users EXCEPT ![i] = ("ENABLED" :> enabled) @@ users[i]],
              written |-> TRUE,
              result |-> IF enabled THEN "True" ELSE "False"]

(***************************************************************************)
(* The inputs of the user service.                                         *)
(***************************************************************************)
\* UserCreate.dict(): every field is there, the defaults filled in
UserCreates ==
    {("NAME" :> Some("rider")) @@ ("EMAIL" :> Some(e)) @@ ("ENABLED" :> TRUE) :
        e \in Emails}

\* UserUpdate.dict(exclude_unset=True): the fields the body names
UserUpdates ==
    {<<>>,
     [NAME |-> Some("pilot")],
     [NAME |-> None],
     [EMAIL |-> Some("b@x.io")],
     [EMAIL |-> Some("A@x.io")],
     [EMAIL |-> None],
     "ENABLED" :> FALSE,
     ("NAME" :> Some("pilot")) @@ ("EMAIL" :> Some("b@x.io")) @@ ("ENABLED" :> FALSE)}

StoredUser(id, address) ==
    ("id" :> id) @@ ("NAME" :> Some("rider")) @@ ("EMAIL" :> Some(address))
        @@ ("ENABLED" :> TRUE)

\* The users.json the service starts from: valid users with distinct ids.
InitialStores ==
    {<<>>,
     <<StoredUser(1, "a@x.io")>>,
     <<StoredUser(1, "a@x.io"), StoredUser(2, "b@x.io")>>}

UserIds == 1..MaxUserId

(***************************************************************************)
(* api_server: the handlers.  An error raised in a try block goes to the   *)
(* first except clause that matches it; HTTPException is an Exception and  *)
(* no ValueError, pydantic's ValidationError is a ValueError.              *)
(***************************************************************************)
IsValueError(exc) == exc \in {"ValueError", "ValidationError"}

\* except ValueError: 409 / except Exception: 500
ExceptValueErrorOrException(exc) == IF IsValueError(exc) THEN 409 ELSE 500

\* except Exception: 500
ExceptException(exc) == 500

Answer(users, status_code, result) ==
    [users |-> users, status_code |-> status_code, result |-> result]

\* POST /users
HandleCreateUser(users, user_data) ==
    LET r == create_user(users, user_data)
    IN  IF r.result \in Errors
        THEN Answer(r.users, ExceptValueErrorOrException(r.result), r.result)
        ELSE Answer(r.users, 201, r.result)

\* PUT /users/{user_id}
HandleReplaceUser(users, user_id, user_data) ==
    LET exists == user_exists(users, user_id)
        r == update_user(users, user_id, user_data, FALSE)
    IN  IF exists \in Errors
        THEN Answer(users, ExceptValueErrorOrException(exists), "not called")
        ELSE IF exists = "False"
        THEN Answer(users, ExceptValueErrorOrException("HTTPException"), "not called")
        ELSE IF r.result \in Errors
        THEN Answer(r.users, ExceptValueErrorOrException(r.result), r.result)
        ELSE IF r.result = "None"
        THEN Answer(r.users, ExceptValueErrorOrException("HTTPException"), r.result)
        ELSE Answer(r.users, 200, r.result)

\* PATCH /users/{user_id}
HandleUpdateUser(users, user_id, user_data) ==
    LET r == update_user(users, user_id, user_data, TRUE)
    IN  IF r.result \in Errors
        THEN Answer(r.users, ExceptValueErrorOrException(r.result), r.result)
        ELSE IF r.result = "None"
        THEN Answer(r.users, ExceptValueErrorOrException("HTTPException"), r.result)
        ELSE Answer(r.users, 200, r.result)

\* DELETE /users/{user_id}
HandleDeleteUser(users, user_id) ==
    LET r == delete_user(users, user_id)
    IN  IF r.result = "True"
        THEN Answer(r.users, 200, r.result)
        ELSE Answer(r.users, ExceptException("HTTPException"), r.result)

\* PATCH /users/{user_id}/enabled
HandleUpdateEnabled(users, user_id, enabled_data) ==
    LET r == update_user_enabled_status(users, user_id, enabled_data["enabled"])
    IN  IF "enabled" \notin DOMAIN enabled_data
        THEN Answer(users, ExceptException("HTTPException"), "not called")
        ELSE IF r.result = "None"
        THEN Answer(r.users, ExceptException("HTTPException"), r.result)
        ELSE Answer(r.users, 200, r.result)

\* One request served from arrival to response.
Serve(method, user_id, user_data, answer) ==
    /\ http_pc = "listening"
    /\ http_calls < MaxRequests
    /\ users_before' = users_file
    /\ users_file' = answer.users
    /\ http_request' = [method |-> method, user_id |-> user_id, user_data |-> user_data]
    /\ http_response' = [status_code |-> answer.status_code, result |-> answer.result]
    /\ http_calls' = http_calls + 1
    /\ UNCHANGED <<config, http_pc, lock, threads, serial,
                   resolveVars, retryVars, fetchVars, aggVars, dayVars>>

ApiCreateUser ==
    \E user_data \in UserCreates :
        Serve("POST", 0, user_data, HandleCreateUser(users_file, user_data))

ApiReplaceUser ==
    \E user_id \in UserIds, user_data \in UserUpdates :
        Serve("PUT", user_id, user_data,
              HandleReplaceUser(users_file, user_id, user_data))

ApiUpdateUser ==
    \E user_id \in UserIds, user_data \in UserUpdates :
        Serve("PATCH", user_id, user_data,
              HandleUpdateUser(users_file, user_id, user_data))

ApiDeleteUser ==
    \E user_id \in UserIds :
        Serve("DELETE", user_id, <<>>, HandleDeleteUser(users_file, user_id))

ApiUpdateEnabled ==
    \E user_id \in UserIds, enabled_data \in {<<>>} \cup {[enabled |-> b] : b \in BOOLEAN} :
        Serve("PATCH enabled", user_id, enabled_data,
              HandleUpdateEnabled(users_file, user_id, enabled_data))

InitApi ==
    /\ config = DefaultConfig
    /\ users_file \in InitialStores
    /\ users_before = users_file
    /\ serial = users_file
    /\ http_request = NoRequest
    /\ http_response = NoResponse
    /\ http_pc = "listening"
    /\ http_calls = 0
    /\ lock = 0
    /\ threads = [t \in Threads |-> [pc |-> "idle", call |-> NoCall, data |-> <<>>,
                                     ret |-> "none"]]
    /\ ResolveIdle
    /\ RetryIdle
    /\ FetchIdle
    /\ AggIdle
    /\ DayIdle

NextApi ==
    ApiCreateUser \/ ApiReplaceUser \/ ApiUpdateUser \/ ApiDeleteUser \/ ApiUpdateEnabled

SpecApi == InitApi /\ [][NextApi]_vars

(***************************************************************************)
(* UserService called from several threads: every method runs             *)
(* "with self._lock:" around its read of the file, its work and its write. *)
(***************************************************************************)
\* The calls a thread may make.
Calls ==
    {[NoCall EXCEPT !.name = "create_user", !.user_data = d] : d \in UserCreates}
    \cup {[NoCall EXCEPT !.name = "update_user", !.user_id = 1, !.user_data = d,
                         !.partial = p] :
             d \in {[NAME |-> Some("pilot")], "ENABLED" :> FALSE}, p \in {TRUE}}
    \cup {[NoCall EXCEPT !.name = "update_user_enabled_status", !.user_id = 1,
                         !.enabled = FALSE]}
    \cup {[NoCall EXCEPT !.name = "delete_user", !.user_id = i] : i \in {1, 2}}

\* The method a call names, applied to the users it read.
Apply(call, users) ==
    CASE call.name = "create_user" -> create_user(users, call.user_data)
      [] call.name = "update_user" ->
             update_user(users, call.user_id, call.user_data, call.partial)
      [] call.name = "update_user_enabled_status" ->
             update_user_enabled_status(users, call.user_id, call.enabled)
      [] call.name = "delete_user" -> delete_user(users, call.user_id)

\* Mutant: the lock is taken without waiting for it.
CanAcquire_always(holder) == TRUE

\* threading.Lock: it is acquired only when no thread holds it
CanAcquire(holder) == holder = 0

ThreadUnchanged ==
    UNCHANGED <<config, users_before, http_request, http_response, http_pc, http_calls,
                resolveVars, retryVars, fetchVars, aggVars, dayVars>>

\* with self._lock:
Acquire(t) ==
    /\ threads[t].pc = "call"
    /\ CanAcquire(lock)
    /\ lock' = t
    /\ threads' = [threads EXCEPT ![t].pc = "locked"]
    /\ UNCHANGED <<users_file, serial>>
    /\ ThreadUnchanged

\* data = self._read_users_file()
ReadUsersFile(t) ==
    /\ threads[t].pc = "locked"
    /\ threads' = [threads EXCEPT ![t].pc = "read", ![t].data = users_file]
    /\ UNCHANGED <<users_file, serial, lock>>
    /\ ThreadUnchanged

\* The body of the method up to its return or raise, self._write_users_file
\* included when the method gets there.
WriteUsersFile(t) ==
    LET r == Apply(threads[t].call, threads[t].data)
    IN  /\ threads[t].pc = "read"
        /\ users_file' = IF r.written THEN r.users ELSE users_file
        /\ serial' = IF r.written THEN Apply(threads[t].call, serial).users ELSE serial
        /\ threads' = [threads EXCEPT ![t].pc = "return", ![t].ret = r.result]
        /\ UNCHANGED lock
        /\ ThreadUnchanged

\* leaving the with block, by return or by raise
Release(t) ==
    /\ threads[t].pc = "return"
    /\ lock' = 0
    /\ threads' = [threads EXCEPT ![t].pc = "done"]
    /\ UNCHANGED <<users_file, serial>>
    /\ ThreadUnchanged

InitUsers ==
    /\ config = DefaultConfig
    /\ users_file \in InitialStores
    /\ users_before = users_file
    /\ serial = users_file
    /\ http_request = NoRequest
    /\ http_response = NoResponse
    /\ http_pc = "idle"
    /\ http_calls = 0
    /\ lock = 0
    /\ threads \in [Threads -> {[pc |-> "call", call |-> c, data |-> <<>>, ret |-> "none"] :
                                   c \in Calls}]
    /\ ResolveIdle
    /\ RetryIdle
    /\ FetchIdle
    /\ AggIdle
    /\ DayIdle

NextUsers ==
    \E t \in Threads : Acquire(t) \/ ReadUsersFile(t) \/ WriteUsersFile(t) \/ Release(t)

SpecUsers == InitUsers /\ [][NextUsers]_vars

(***************************************************************************)
(* The whole model: any of the parts.                                      *)
(***************************************************************************)
Init ==
    \/ InitResolve \/ InitRetry \/ InitFetch \/ InitAgg \/ InitDay \/ InitRisk
    \/ InitApi \/ InitUsers

Next ==
    \/ NextResolve \/ NextFetch \/ NextAgg \/ NextDay \/ NextRisk
    \/ NextApi \/ NextUsers

Spec == Init /\ [][Next]_vars

(***************************************************************************)
(* Claims about find_forecast_with_fallback (SpecResolve).                 *)
(***************************************************************************)
Min(S) == CHOOSE x \in S : \A y \in S : x <= y

TheForecast == CHOOSE i \in res_out.forecast : TRUE
TheTime == forecasts[TheForecast].time

\* The entries with time >= now whose hour of day is in [start_hour, end_hour].
ExactCandidates ==
    {i \in 1..Len(forecasts) :
        /\ forecasts[i].time >= current_time
        /\ target_hour_range[1] <= HourOf(forecasts[i].time)
        /\ HourOf(forecasts[i].time) <= target_hour_range[2]}

\* The entries with time >= now inside the band around the target window.
BandCandidates ==
    LET w == TargetWindow(target_hour_range, current_time)
    IN  {i \in 1..Len(forecasts) :
            /\ forecasts[i].time >= current_time
            /\ forecasts[i].time >=
                   w.target_start - config.fallback_window_hours * TicksPerHour
            /\ forecasts[i].time <=
                   w.target_end + config.fallback_window_hours * TicksPerHour}

\* C2: when some entry has time >= now and its hour within the window, the
\* resolver returns the first such entry in input order with used_fallback
\* false and no offset, whether or not fallback is enabled.
C2_ExactMatchReturnsFirst ==
    (res_pc = "done" /\ ExactCandidates # {}) =>
        res_out = [forecast |-> Some(Min(ExactCandidates)),
                   used_fallback |-> FALSE,
                   offset_hours |-> None]

\* C2 witness: fallback is on, the first entry is not the match, and an entry
\* outside the window but inside the band comes before the one returned.
C2_Witness ==
    /\ res_pc = "done"
    /\ config.enable_fallback
    /\ ExactCandidates # {}
    /\ Min(ExactCandidates) > 1
    /\ \E j \in BandCandidates : j < Min(ExactCandidates)
    /\ res_out.forecast = Some(Min(ExactCandidates))

\* C3: with no exact match and fallback enabled, an entry that is returned is
\* one of the entries with time >= now inside the band, none of which is
\* nearer to the centre of the target window, and used_fallback is true.
C3_FallbackReturnsNearest ==
    (res_pc = "done" /\ ExactCandidates = {} /\ config.enable_fallback
        /\ res_out.forecast # None) =>
        LET w == TargetWindow(target_hour_range, current_time)
        IN  /\ res_out.used_fallback
            /\ TheForecast \in BandCandidates
            /\ \A j \in BandCandidates :
                   Abs(TheTime - TargetCenter(w))
                       <= Abs(forecasts[j].time - TargetCenter(w))

\* C3 witness: a fallback entry is returned although a farther entry of the
\* band comes first in the input, and a past entry is nearer still.
C3_Witness ==
    LET w == TargetWindow(target_hour_range, current_time)
    IN  /\ res_pc = "done"
        /\ res_out.used_fallback
        /\ res_out.forecast # None
        /\ \E j \in BandCandidates :
               /\ j < TheForecast
               /\ Abs(forecasts[j].time - TargetCenter(w)) > Abs(TheTime - TargetCenter(w))
        /\ \E k \in 1..Len(forecasts) :
               /\ forecasts[k].time < current_time
               /\ Abs(forecasts[k].time - TargetCenter(w)) < Abs(TheTime - TargetCenter(w))

\* C14: the resolver returns (None, false, None) exactly when no entry
\* qualifies in the exact pass and either fallback is disabled or no entry
\* with time >= now lies inside the band; in every other case it returns an
\* entry of the input.
C14_NoneExactlyWhenNothingQualifies ==
    res_pc = "done" =>
        LET nothing == /\ ExactCandidates = {}
                       /\ (~config.enable_fallback \/ BandCandidates = {})
        IN  /\ nothing => res_out = [forecast |-> {}, used_fallback |-> FALSE,
                                     offset_hours |-> {}]
            /\ ~nothing => \E i \in 1..Len(forecasts) : res_out.forecast = {i}

\* C14 witness: fallback is on, an entry of the band is past, an entry to come
\* is outside the band, and nothing is returned.
C14_Witness ==
    LET w == TargetWindow(target_hour_range, current_time)
    IN  /\ res_pc = "done"
        /\ config.enable_fallback
        /\ config.fallback_window_hours > 0
        /\ res_out.forecast = {}
        /\ \E i \in 1..Len(forecasts) :
               /\ forecasts[i].time < current_time
               /\ InBand(forecasts[i].time, FallbackBand(w, config))
        /\ \E j \in 1..Len(forecasts) :
               /\ forecasts[j].time >= current_time
               /\ ~InBand(forecasts[j].time, FallbackBand(w, config))

\* C15: of the band's entries that are as near to the midpoint of the target
\* window as the entry the fallback pass returned, the one returned comes
\* first in the input.
C15_TieGoesToEarlierEntry ==
    (res_pc = "done" /\ res_out.used_fallback) =>
        LET w == TargetWindow(target_hour_range, current_time)
        IN  \A j \in BandCandidates :
                Abs(forecasts[j].time - TargetCenter(w)) = Abs(TheTime - TargetCenter(w))
                    => TheForecast <= j

\* C15 witness: the entry returned is followed by an entry at another time
\* that is exactly as far from the midpoint.
C15_Witness ==
    LET w == TargetWindow(target_hour_range, current_time)
    IN  /\ res_pc = "done"
        /\ res_out.used_fallback
        /\ \E j \in BandCandidates :
               /\ j > TheForecast
               /\ forecasts[j].time # TheTime
               /\ Abs(forecasts[j].time - TargetCenter(w)) = Abs(TheTime - TargetCenter(w))

\* The scenario: window 7-9, now 8:30, fallback on with 3 hours, entries at
\* 6:00 and 11:00 of today and at no other time.
SixAndElevenScenario ==
    /\ target_hour_range = <<7, 9>>
    /\ current_time = At(0, 8, 2)
    /\ config.enable_fallback
    /\ config.fallback_window_hours = 3
    /\ {forecasts[i].time : i \in 1..Len(forecasts)} = {At(0, 6, 0), At(0, 11, 0)}

\* C16 as stated: in the scenario the 11:00 entry is returned with
\* used_fallback true and offset_hours +2.
C16_ScenarioOffsetPlusTwo ==
    (res_pc = "done" /\ SixAndElevenScenario) =>
        /\ res_out.forecast # {}
        /\ TheTime = At(0, 11, 0)
        /\ res_out.used_fallback
        /\ res_out.offset_hours = {2}

\* C16 amended: in the scenario the 11:00 entry is returned with
\* used_fallback true and offset_hours +1: 11:00 is one hour and one tick
\* after target_end, truncated to whole hours.
C16_ScenarioOffsetPlusOne ==
    (res_pc = "done" /\ SixAndElevenScenario) =>
        /\ res_out.forecast # {}
        /\ TheTime = At(0, 11, 0)
        /\ res_out.used_fallback
        /\ res_out.offset_hours = {1}

\* C16 witness: the scenario with the 11:00 entry listed before the 6:00 one.
C16_Witness ==
    /\ res_pc = "done"
    /\ SixAndElevenScenario
    /\ forecasts = <<[time |-> At(0, 11, 0)], [time |-> At(0, 6, 0)]>>
    /\ res_out = [forecast |-> {1}, used_fallback |-> TRUE, offset_hours |-> {1}]

\* Whole hours in a span of ticks, truncated.
WholeHours(ticks) == ticks \div TicksPerHour

\* C17 as stated: the offset of an entry returned by the fallback pass is 0
\* inside [target_start, target_end], strictly negative before target_start
\* and strictly positive after target_end, its magnitude being the time to the
\* nearer edge truncated to whole hours.
C17_OffsetStrictlySigned ==
    (res_pc = "done" /\ res_out.used_fallback) =>
        LET w == TargetWindow(target_hour_range, current_time)
            offset == CHOOSE o \in res_out.offset_hours : TRUE
        IN  /\ (w.target_start <= TheTime /\ TheTime <= w.target_end) => offset = 0
            /\ TheTime < w.target_start =>
                   (offset < 0 /\ -offset = WholeHours(w.target_start - TheTime))
            /\ TheTime > w.target_end =>
                   (offset > 0 /\ offset = WholeHours(TheTime - w.target_end))

\* C17 amended: the offset is 0 inside [target_start, target_end]; before
\* target_start it is zero or negative, minus the whole hours up to
\* target_start; otherwise, after target_end, it is zero or positive, the
\* whole hours since target_end.
C17_OffsetSignedTruncated ==
    (res_pc = "done" /\ res_out.used_fallback) =>
        LET w == TargetWindow(target_hour_range, current_time)
            offset == CHOOSE o \in res_out.offset_hours : TRUE
        IN  /\ res_out.offset_hours # {}
            /\ (w.target_start <= TheTime /\ TheTime <= w.target_end) => offset = 0
            /\ TheTime < w.target_start =>
                   (offset <= 0 /\ -offset = WholeHours(w.target_start - TheTime))
            /\ (TheTime >= w.target_start /\ TheTime > w.target_end) =>
                   (offset >= 0 /\ offset = WholeHours(TheTime - w.target_end))

\* C17 witness: the entry returned lies after target_end, by less than an
\* hour, and its offset is 0.
C17_Witness ==
    LET w == TargetWindow(target_hour_range, current_time)
    IN  /\ res_pc = "done"
        /\ res_out.used_fallback
        /\ target_hour_range[1] <= target_hour_range[2]
        /\ TheTime > w.target_end
        /\ res_out.offset_hours = {0}

\* The window the claim names: tomorrow's when today's target_end is before
\* now, today's otherwise.
TodayStart == DayStart(current_time) + target_hour_range[1] * TicksPerHour
TodayEnd == DayStart(current_time) + target_hour_range[2] * TicksPerHour + TicksPerHour - 1
WindowShifts == TodayEnd < current_time
ClaimedStart == IF WindowShifts THEN TodayStart + TicksPerDay ELSE TodayStart
ClaimedEnd == IF WindowShifts THEN TodayEnd + TicksPerDay ELSE TodayEnd

\* The entries with time >= now within fallback_window_hours of that window.
ClaimedEligible ==
    {i \in 1..Len(forecasts) :
        /\ forecasts[i].time >= current_time
        /\ forecasts[i].time >= ClaimedStart - config.fallback_window_hours * TicksPerHour
        /\ forecasts[i].time <= ClaimedEnd + config.fallback_window_hours * TicksPerHour}

\* C18: the fallback pass works on tomorrow's window when today's target_end
\* is before now and on today's otherwise: it returns an entry exactly when
\* one is eligible for that window, the entry is eligible and nearest to that
\* window's midpoint, and its offset is counted from that window's edges.
C18_ElapsedWindowShiftsToTomorrow ==
    (res_pc = "done" /\ ExactCandidates = {} /\ config.enable_fallback) =>
        LET midpoint == ClaimedStart + HalfRoundEven(ClaimedEnd - ClaimedStart)
            offset == CHOOSE o \in res_out.offset_hours : TRUE
        IN  /\ res_out.forecast # {} <=> ClaimedEligible # {}
            /\ res_out.forecast # {} =>
                   /\ TheForecast \in ClaimedEligible
                   /\ \A j \in ClaimedEligible :
                          Abs(TheTime - midpoint) <= Abs(forecasts[j].time - midpoint)
                   /\ TheTime < ClaimedStart => -offset = WholeHours(ClaimedStart - TheTime)
                   /\ (TheTime >= ClaimedStart /\ TheTime > ClaimedEnd) =>
                          offset = WholeHours(TheTime - ClaimedEnd)

\* C18 witness: today's window is over; an entry of today that is to come and
\* within the hours of today's window is listed first, and the entry returned
\* is one of tomorrow.
C18_Witness ==
    /\ res_pc = "done"
    /\ WindowShifts
    /\ res_out.used_fallback
    /\ TheTime >= TicksPerDay
    /\ \E j \in 1..Len(forecasts) :
           /\ j < TheForecast
           /\ forecasts[j].time >= current_time
           /\ forecasts[j].time <= TodayEnd + config.fallback_window_hours * TicksPerHour

\* C25: the entry find_forecast_with_fallback returns, by the exact pass or by
\* the fallback pass and whatever the order of the entries, is never strictly
\* before now.
C25_NeverReturnsPastEntry ==
    (res_pc = "done" /\ res_out.forecast # {}) => TheTime >= current_time

\* C25 witness: an entry is returned although an entry before now, within the
\* target hours, comes first in the list.
C25_Witness ==
    /\ res_pc = "done"
    /\ res_out.forecast # {}
    /\ \E j \in 1..Len(forecasts) :
           /\ j < TheForecast
           /\ forecasts[j].time < current_time
           /\ target_hour_range[1] <= HourOf(forecasts[j].time)
           /\ HourOf(forecasts[j].time) <= target_hour_range[2]

\* C26: when an entry is returned with used_fallback = true, the absolute
\* value of offset_hours is at most fallback_window_hours.
C26_OffsetWithinFallbackWindow ==
    (res_pc = "done" /\ res_out.used_fallback) =>
        \A o \in res_out.offset_hours :
            /\ o <= config.fallback_window_hours
            /\ -o <= config.fallback_window_hours

\* C26 witness: a fallback entry whose offset is as large as the window allows.
C26_Witness ==
    /\ res_pc = "done"
    /\ res_out.used_fallback
    /\ config.fallback_window_hours >= 1
    /\ res_out.offset_hours \in {{config.fallback_window_hours},
                                 {-config.fallback_window_hours}}

\* C27 as stated: an entry returned with used_fallback = false lies inside the
\* target window of today, or of tomorrow when today's window has elapsed.
C27_ExactMatchInCurrentWindow ==
    (res_pc = "done" /\ res_out.forecast # {} /\ ~res_out.used_fallback) =>
        (ClaimedStart <= TheTime /\ TheTime <= ClaimedEnd)

\* C27, amended: an entry returned with used_fallback = false lies inside the
\* target window [start_hour:00:00, end_hour:59:59.999999] of the day the
\* entry is on, which is today or a later day.
C27_ExactMatchInWindowOfItsDay ==
    (res_pc = "done" /\ res_out.forecast # {} /\ ~res_out.used_fallback) =>
        /\ DayStart(TheTime) >= DayStart(current_time)
        /\ DayStart(TheTime) + target_hour_range[1] * TicksPerHour <= TheTime
        /\ TheTime <= DayStart(TheTime) + target_hour_range[2] * TicksPerHour
                          + TicksPerHour - 1

\* C27 witness: today's window is not over, and the exact match is an entry
\* of tomorrow.
C27_Witness ==
    /\ res_pc = "done"
    /\ res_out.forecast # {}
    /\ ~res_out.used_fallback
    /\ ~WindowShifts
    /\ DayStart(TheTime) > DayStart(current_time)

(***************************************************************************)
(* Claims about retry_with_backoff (SpecRetry, FairSpecRetry).             *)
(***************************************************************************)
\* The attempt failed in a way the policy retries: a timeout, a connection
\* error, another exception, HTTP 429 or HTTP 5xx.
RetryableFailure(o) ==
    \/ o.kind \in {"timeout", "connection_error", "exception"}
    \/ o.kind = "response" /\ (o.status = 429 \/ (500 <= o.status /\ o.status <= 599))

\* The attempt failed: func raised, or the response is not a 2xx one.
FailedAttempt(o) ==
    o.kind # "response" \/ ~(200 <= o.status /\ o.status <= 299)

RECURSIVE Pow2(_)
Pow2(n) == IF n = 0 THEN 1 ELSE 2 * Pow2(n - 1)

Smaller(a, b) == IF a <= b THEN a ELSE b

\* C4: with retries enabled the call ends, func is called at most
\* max_retries + 1 times, and when every attempt failed with a retryable error
\* there were exactly max_retries + 1 attempts and None is returned.
C4_RetryTerminatesWithinBudget ==
    /\ config.enable_retries ~> (rpc = "done")
    /\ [](config.enable_retries => Len(outcomes) <= config.max_retries + 1)
    /\ []((rpc = "done" /\ config.enable_retries
            /\ \A k \in 1..Len(outcomes) : RetryableFailure(outcomes[k]))
          => (Len(outcomes) = config.max_retries + 1 /\ retval = None))

\* C4 witness: three retries were allowed and all four attempts failed, each
\* in another retryable way.
C4_Witness ==
    /\ rpc = "done"
    /\ config.enable_retries
    /\ config.max_retries = 3
    /\ Len(outcomes) = 4
    /\ \A k \in 1..4 : RetryableFailure(outcomes[k])
    /\ \A j, k \in 1..4 : j # k => outcomes[j] # outcomes[k]
    /\ retval = None

\* C5: with retries enabled, a 4xx response other than 429 on attempt k ends
\* the call at once with None: k is the last attempt and only the k - 1 sleeps
\* between the attempts before it were made.
C5_ClientErrorIsTerminal ==
    config.enable_retries =>
        \A k \in 1..Len(outcomes) :
            (outcomes[k].kind = "response" /\ 400 <= outcomes[k].status
                /\ outcomes[k].status <= 499 /\ outcomes[k].status # 429)
            => /\ k = Len(outcomes)
               /\ rpc = "done"
               /\ retval = None
               /\ Len(sleeps) = k - 1

\* C5 witness: max_retries is 2 and the first attempt got a 404: one attempt,
\* no sleep, None.
C5_Witness ==
    /\ rpc = "done"
    /\ config.enable_retries
    /\ config.max_retries = 2
    /\ outcomes = <<[kind |-> "response", status |-> 404]>>
    /\ sleeps = <<>>
    /\ retval = None

\* C6: with retries enabled and base <= max, the i-th sleep lasts
\* min(base * 2^(i-1), max); each sleep lies between two attempts and none
\* follows the final attempt; with max_retries 2, base 1, max 10 and a timeout
\* on every attempt there are 3 attempts and the sleeps 1, 2.
C6_BackoffSchedule ==
    (config.enable_retries /\ config.retry_delay_base <= config.retry_delay_max) =>
        /\ \A i \in 1..Len(sleeps) :
               sleeps[i] = Smaller(config.retry_delay_base * Pow2(i - 1),
                                   config.retry_delay_max)
        /\ rpc = "sleep" => Len(sleeps) = Len(outcomes) - 1
        /\ rpc = "try" => Len(sleeps) = Len(outcomes)
        /\ rpc \in {"exhausted", "done"} => Len(sleeps) = Len(outcomes) - 1
        /\ (rpc = "done" /\ config.max_retries = 2 /\ config.retry_delay_base = 1
               /\ config.retry_delay_max = 10
               /\ \A k \in 1..Len(outcomes) : outcomes[k].kind = "timeout")
           => (Len(outcomes) = 3 /\ sleeps = <<1, 2>>)

\* C6 witness: the scenario itself, and the cap at work.
C6_Witness ==
    /\ rpc = "done"
    /\ config.enable_retries
    /\ config.max_retries = 2
    /\ config.retry_delay_base = 1
    /\ config.retry_delay_max = 10
    /\ Len(outcomes) = 3
    /\ \A k \in 1..3 : outcomes[k].kind = "timeout"
    /\ sleeps = <<1, 2>>

\* C7: with retries disabled func is called exactly once and any failure of
\* that attempt, an exception or a response that is not 2xx, gives None.
C7_SingleAttemptFailureGivesNone ==
    (rpc = "done" /\ ~config.enable_retries) =>
        /\ Len(outcomes) = 1
        /\ FailedAttempt(outcomes[1]) => retval = None

\* C8: with retries enabled, a retryable failure with attempts left is
\* followed by another attempt, and the response of the first attempt that
\* succeeds is what the call returns.
C8_RetryableFailuresAreRetried ==
    /\ \A n \in 1..(MaxRetriesBound + 1) :
           (config.enable_retries /\ Len(outcomes) = n
               /\ RetryableFailure(outcomes[n]) /\ n < config.max_retries + 1)
           ~> (Len(outcomes) = n + 1)
    /\ [](config.enable_retries =>
            \A k \in 1..Len(outcomes) :
                (outcomes[k].kind = "response" /\ 200 <= outcomes[k].status
                    /\ outcomes[k].status <= 299)
                => /\ k = Len(outcomes)
                   /\ rpc = "done"
                   /\ retval = Some([status |-> outcomes[k].status, call |-> k]))

\* C8 witness: a timeout, a connection error and a 500 were retried and the
\* fourth attempt's response is returned.
C8_Witness ==
    /\ rpc = "done"
    /\ config.enable_retries
    /\ Len(outcomes) = 4
    /\ outcomes[1].kind = "timeout"
    /\ outcomes[2].kind = "connection_error"
    /\ outcomes[3] = [kind |-> "response", status |-> 500]
    /\ retval = Some([status |-> 200, call |-> 4])

(***************************************************************************)
(* Claims about get_all_forecasts (SpecAgg) and get_forecast (SpecFetch).  *)
(***************************************************************************)
Range(f) == {f[i] : i \in 1..Len(f)}

\* The (location, source) pairs of the calls logged that returned a forecast.
ReturnedForecast ==
    {<<e.loc, e.source>> : e \in {x \in Range(fetch_log) : x.result # None}}

\* C9: get_all_forecasts calls every fetcher for every location, a None from
\* one of them stops nothing, and the list returned holds exactly one pair for
\* each call that returned a forecast and none for a call that returned None.
C9_CollectsEverySuccess ==
    agg_pc = "done" =>
        /\ Len(fetch_log) = Len(locations) * Len(FETCHERS)
        /\ \A l \in 1..Len(locations), f \in 1..Len(FETCHERS) :
               \E k \in 1..Len(fetch_log) :
                   fetch_log[k].loc = locations[l] /\ fetch_log[k].source = FETCHERS[f]
        /\ {<<r[1], r[2].source>> : r \in Range(results)} = ReturnedForecast
        /\ Len(results) = Cardinality(ReturnedForecast)
        /\ \A r \in Range(results) :
               \E e \in Range(fetch_log) :
                   e.loc = r[1] /\ e.result = Some(r[2])

\* C9 witness: two locations; the first fetcher returned None for the first
\* location and later fetchers, and the second location, still gave forecasts.
C9_Witness ==
    /\ agg_pc = "done"
    /\ Len(locations) = 2
    /\ fetch_log[1].result = None
    /\ fetch_log[2].result # None
    /\ fetch_log[4].result = None
    /\ fetch_log[5].result # None
    /\ Len(results) = 4

\* The sources of which some call of the pass returned a forecast.
ProducedResult == {e.source : e \in {x \in Range(fetch_log) : x.result # None}}

\* C21: after a pass, print_summary lists a provider as failed exactly when
\* it returned no forecast for any location of the pass and as successful
\* otherwise; the two sets are disjoint and together they are the four ids.
C21_FailedIffNoResult ==
    agg_pc = "reported" =>
        /\ \A id \in {"openweather", "weatherapi", "tomorrowio", "noaa"} :
               /\ id \in api_status.failed <=> id \notin ProducedResult
               /\ id \in api_status.successful <=> id \in ProducedResult
        /\ api_status.successful \cap api_status.failed = {}
        /\ api_status.successful \cup api_status.failed
               = {"openweather", "weatherapi", "tomorrowio", "noaa"}

\* C21 witness: two locations; one provider is disabled, one returned a
\* forecast for the second location only, and both sets are not empty.
C21_Witness ==
    /\ agg_pc = "reported"
    /\ Len(locations) = 2
    /\ "noaa" \notin config.enabled_apis
    /\ fetch_log[1].result = None
    /\ fetch_log[5].result # None
    /\ "openweather" \in api_status.successful
    /\ api_status.failed = {"noaa", "weatherapi"}

\* C10: whatever the remote calls do, get_forecast of each fetcher ends by
\* returning None or a ForecastResult of its source; no exception leaves it.
C10_GetForecastNeverRaises ==
    /\ apc # "raised"
    /\ apc = "done" =>
           \/ fetch_out = None
           \/ \E f \in fetch_out : fetch_out = {f} /\ f.source = provider

\* C10 witness: NOAA's point lookup succeeded and its forecast response is not
\* JSON; get_forecast returned None.
C10_Witness ==
    /\ apc = "done"
    /\ provider = "noaa"
    /\ step = "forecast"
    /\ body = "malformed_json"
    /\ fetch_out = None

\* The optional value is present and a whole number.
IsOneInteger(opt) == Cardinality(opt) = 1 /\ \A o \in opt : o \in Int

\* C19: the triple find_forecast_with_fallback returned, and the
\* ForecastResult built from it, has no offset when used_fallback is false
\* and a whole number as offset when used_fallback is true.
C19_OffsetPresentIffFallback ==
    /\ ~res_out.used_fallback => res_out.offset_hours = {}
    /\ res_out.used_fallback => IsOneInteger(res_out.offset_hours)
    /\ \A f \in fetch_out :
           /\ ~f.used_fallback => f.fallback_offset_hours = {}
           /\ f.used_fallback => IsOneInteger(f.fallback_offset_hours)
           /\ f.used_fallback = res_out.used_fallback
           /\ f.fallback_offset_hours = res_out.offset_hours

\* C19 witness: WeatherAPI returned a forecast found by the fallback pass, one
\* hour after the window.
C19_Witness ==
    /\ apc = "done"
    /\ provider = "weatherapi"
    /\ \E f \in fetch_out :
           /\ f.used_fallback
           /\ f.fallback_offset_hours = {1}
    /\ res_out.used_fallback

\* C20: get_forecast of a fetcher whose source is not in enabled_apis returns
\* None in its first step, and no step of it calls func, enters
\* retry_with_backoff or calls the resolver.
C20_DisabledAdapterMakesNoCall ==
    [][provider \notin config.enabled_apis =>
          /\ apc' = "done"
          /\ fetch_out' = {}
          /\ UNCHANGED retryVars
          /\ UNCHANGED resolveVars]_vars

\* C20 witness: NOAA is disabled and its get_forecast has returned None with
\* no call made.
C20_Witness ==
    /\ apc = "done"
    /\ provider = "noaa"
    /\ "noaa" \notin config.enabled_apis
    /\ fetch_out = {}
    /\ outcomes = <<>>
    /\ rpc = "idle"
    /\ res_out = NoResult

(***************************************************************************)
(* Claims about the round trip decision (SpecDay).                         *)
(***************************************************************************)
\* Some forecast of the leg has overall risk high.
LegIsHigh(leg) ==
    \E i \in 1..Len(leg) : categorize_weather_risk(leg[i]).overall = "high"

\* C1: the should_ride the run acts on is never true when the overall risk of
\* either leg is high.
C1_NoRideWhenEitherLegHigh ==
    (day_pc = "done" /\ should_ride = Some(TRUE)) =>
        (~LegIsHigh(forecasts_morning) /\ ~LegIsHigh(forecasts_evening))

\* Some forecast of the leg has a rain probability above the percentage.
LegHasRainAbove(leg, percent) ==
    \E i \in 1..Len(leg) : leg[i].chance_of_rain > percent

\* The critical factors of the analysis that name rain.
RainFactors == {"Evening rain will trap you at work", "Heavy rain forecast"}

\* The conditions of clear weather: no rain and no wind.
IsClearWeather(conditions) == conditions.rain = 0 /\ conditions.wind = 0

\* C11: a leg for which no forecast was collected is reported as without data
\* or the run does not act on should_ride = true, and the full-day analysis
\* does not hold clear weather (0% rain, no wind) for that leg.
C11_NoDataDegradesSafely ==
    day_pc = "done" =>
        /\ forecasts_morning = <<>> =>
               /\ full_report[1].no_data \/ should_ride # Some(TRUE)
               /\ ~IsClearWeather(weather_analysis.morning_conditions)
        /\ forecasts_evening = <<>> =>
               /\ full_report[2].no_data \/ should_ride # Some(TRUE)
               /\ ~IsClearWeather(weather_analysis.evening_conditions)

\* C12: when a forecast of either leg has a rain probability above 50%, the
\* run does not act on should_ride = true and the overall risk of the full-day
\* analysis is high, whatever the wind, the temperature and the other leg.
C12_RainAboveHalfMeansNoRide ==
    (day_pc = "done"
        /\ (LegHasRainAbove(forecasts_morning, 50) \/ LegHasRainAbove(forecasts_evening, 50)))
    => /\ should_ride # Some(TRUE)
       /\ weather_analysis.overall_risk = "high"

\* The leg has forecasts and all of them are dry and calm with a temperature
\* between 51 and 94 F.
CalmDryLeg(leg) ==
    /\ leg # <<>>
    /\ \A i \in 1..Len(leg) :
           /\ leg[i].chance_of_rain < 20
           /\ MphMicro(leg[i].wind_kph) < 15 * 1000000
           /\ FahrenheitTimes5(leg[i].temp_c) >= 51 * 5
           /\ FahrenheitTimes5(leg[i].temp_c) <= 94 * 5

\* The leg has forecasts, all calm, with rain above 50% and below 80%.
RainyCalmLeg(leg) ==
    /\ leg # <<>>
    /\ \A i \in 1..Len(leg) :
           /\ leg[i].chance_of_rain > 50
           /\ leg[i].chance_of_rain < 80
           /\ MphMicro(leg[i].wind_kph) < 15 * 1000000

\* C13: after a calm dry morning leg and an evening leg with rain above 50%
\* and below 80% and calm wind, the overall risk of the full-day analysis is
\* high, the should_ride acted on is false, and a factor that names rain is
\* given as the concern.
C13_RainyEveningScenario ==
    (day_pc = "done" /\ CalmDryLeg(forecasts_morning) /\ RainyCalmLeg(forecasts_evening))
    => /\ weather_analysis.overall_risk = "high"
       /\ should_ride = Some(FALSE)
       /\ \E k \in 1..Len(weather_analysis.critical_factors) :
              weather_analysis.critical_factors[k] \in RainFactors

(***************************************************************************)
(* Claims about categorize_weather_risk (SpecRisk).                        *)
(***************************************************************************)
\* The order of the severities: minimal < low < moderate < high.
Severity(level) ==
    CASE level = "minimal" -> 0
      [] level = "low" -> 1
      [] level = "moderate" -> 2
      [] level = "high" -> 3

\* C22: the rain risk is high for p >= 80, moderate for 50 <= p < 80, low for
\* 20 <= p < 50 and minimal below 20, and no smaller probability has a more
\* severe rain risk.
C22_RainRiskThresholds ==
    day_pc = "categorized" =>
        LET p == risk_forecast.chance_of_rain
        IN  /\ p >= 80 => risk.rain = "high"
            /\ (50 <= p /\ p < 80) => risk.rain = "moderate"
            /\ (20 <= p /\ p < 50) => risk.rain = "low"
            /\ p < 20 => risk.rain = "minimal"
            /\ \A q \in 0..p : Severity(RainRisk(q)) <= Severity(risk.rain)

\* C22 witness: a probability of exactly 80 is categorized high.
C22_Witness ==
    /\ day_pc = "categorized"
    /\ risk_forecast.chance_of_rain = 80
    /\ risk.rain = "high"

\* C23: with t the temperature in Fahrenheit (t * 5 = temp_c * 9 + 160), the
\* temperature risk is high for t <= 35 or t >= 95, moderate for 35 < t <= 50
\* and minimal otherwise; it is never low.
C23_TemperatureRiskThresholds ==
    day_pc = "categorized" =>
        LET t5 == risk_forecast.temp_c * 9 + 160
        IN  /\ (t5 <= 35 * 5 \/ t5 >= 95 * 5) => risk.temperature = "high"
            /\ (35 * 5 < t5 /\ t5 <= 50 * 5) => risk.temperature = "moderate"
            /\ (50 * 5 < t5 /\ t5 < 95 * 5) => risk.temperature = "minimal"
            /\ risk.temperature # "low"

\* C23 witness: 10 C, exactly 50 F, is categorized moderate.
C23_Witness ==
    /\ day_pc = "categorized"
    /\ risk_forecast.temp_c = 10
    /\ risk.temperature = "moderate"

\* C24: the overall risk is the most severe of the rain, wind and temperature
\* risks.
C24_OverallIsMostSevere ==
    day_pc = "categorized" =>
        /\ risk.overall \in {risk.rain, risk.wind, risk.temperature}
        /\ \A level \in {risk.rain, risk.wind, risk.temperature} :
               Severity(level) <= Severity(risk.overall)

\* C24 witness: rain low, wind and temperature minimal: overall low.
C24_Witness ==
    /\ day_pc = "categorized"
    /\ risk.rain = "low"
    /\ risk.wind = "minimal"
    /\ risk.temperature = "minimal"
    /\ risk.overall = "low"

(***************************************************************************)
(* Claims about the user API (SpecApi) and UserService (SpecUsers).        *)
(***************************************************************************)
\* The ids stored in a list of users.
IdsOf(users) == {users[i]["id"] : i \in 1..Len(users)}

\* The last request was a well-formed DELETE, PUT, PATCH or PATCH-enabled for
\* an id that was not in the store.
UnknownIdRequest ==
    /\ http_request.method \in {"DELETE", "PUT", "PATCH", "PATCH enabled"}
    /\ http_request.user_id \notin IdsOf(users_before)
    /\ http_request.method = "PATCH enabled" => "enabled" \in DOMAIN http_request.user_data

\* C28: a DELETE, PUT, PATCH or PATCH-enabled request for an id that is not in
\* the store is answered 404 and leaves the store unchanged.
C28_UnknownIdAnswered404 ==
    UnknownIdRequest =>
        /\ http_response.status_code = 404
        /\ users_file = users_before

\* C29: from a store with pairwise distinct ids, at every point of every
\* interleaving of concurrent create_user, update_user,
\* update_user_enabled_status and delete_user calls the stored ids are
\* pairwise distinct, and the store is what the calls that have written give
\* when applied one after another: no completed create or update is lost.
C29_LockedCallsKeepIdsAndUpdates ==
    /\ \A i, j \in 1..Len(users_file) :
           i # j => users_file[i]["id"] # users_file[j]["id"]
    /\ users_file = serial

\* C29 witness: two threads have created a user each, and both users are
\* stored next to those that were there.
C29_Witness ==
    /\ \A t \in Threads : threads[t].pc = "done"
    /\ \E t1, t2 \in Threads :
           /\ t1 # t2
           /\ threads[t1].call.name = "create_user"
           /\ threads[t2].call.name = "create_user"
           /\ threads[t1].ret = "UserResponse"
           /\ threads[t2].ret = "UserResponse"
    /\ Len(users_file) = Len(users_before) + 2

\* C30: when update_user, called for a PATCH or a PUT, ends by raising an
\* error, the stored users are the same as before the request.
C30_FailedUpdateLeavesStore ==
    (http_request.method \in {"PUT", "PATCH"} /\ http_response.result \in Errors) =>
        users_file = users_before

=============================================================================
